---- MODULE Spec2Model ----
(***************************************************************************)
(* Model of the triage workflow of realtime-virtual-triage.                *)
(*                                                                         *)
(* backend/app/agents.py builds a three-node graph (triage ->              *)
(* clinical_guidance -> referral_builder) over a TriageAgentState          *)
(* dictionary.  Every node calls the reasoning engine through              *)
(* with_structured_output(<pydantic model>) and merges the validated       *)
(* result into the state; conditional edges route on the merged state.     *)
(* One pass of the graph is one user turn.                                 *)
(*                                                                         *)
(* Free-text fields (symptoms, chief_complaint, assessment, medical codes, *)
(* messages, guidance_summary, next_steps) take no part in any routing     *)
(* decision and are left out of the state record.                          *)
(***************************************************************************)
EXTENDS Integers, Sequences, FiniteSets, TLC

(***************************************************************************)
(* Bounds of the model.                                                    *)
(***************************************************************************)
\* Number of user turns (graph passes) explored for one session.
MaxTurns == 3
\* Hours the clock of the session store advances in one step, and the hour at
\* which it stops.
TickHours == 24
MaxTime == 48
\* Transcript chunks appended to one session.
MaxChunks == 1

(***************************************************************************)
(* Program constants.                                                      *)
(***************************************************************************)
\* Field(ge=1, le=5) of urgency_score.
UrgencyMin == 1
UrgencyMax == 5
\* Clarification cap of the workflow orchestrator.
ClarificationCap == 2
\* Settings.session_ttl_hours
session_ttl_hours == 24

\* Optional[T] is modelled as a sequence of length 0 (None) or 1.
None == <<>>
Some(v) == <<v>>

\* The closed set of care-setting labels of ClinicalGuidanceOutput.
CareSettings ==
    {"Emergency Department", "Urgent Care", "Primary Care", "Self-care", "Specialist"}

(***************************************************************************)
(* str.lower() on the strings that occur in the model.                     *)
(***************************************************************************)
Lower(s) ==
    CASE s = "Emergency Department" -> "emergency department"
      [] s = "Urgent Care"          -> "urgent care"
      [] s = "Primary Care"         -> "primary care"
      [] s = "Self-care"            -> "self-care"
      [] s = "Specialist"           -> "specialist"
      [] s = "Emergency Medicine"   -> "emergency medicine"
      [] s = "EMERGENCY MEDICINE"   -> "emergency medicine"
      [] s = "Cardiology"           -> "cardiology"
      [] s = "Dermatology"          -> "dermatology"
      [] s = "URGENT CARE"          -> "urgent care"
      [] s = "Telehealth"           -> "telehealth"
      [] OTHER                      -> s

\* preferred_specialty_map.get(key, "")
preferred_specialty_map(key) ==
    CASE key = "primary care"         -> "Primary Care"
      [] key = "self-care"            -> "Primary Care"
      [] key = "urgent care"          -> "Urgent Care"
      [] key = "emergency department" -> "Emergency Medicine"
      [] key = "specialist"           -> "Cardiology"
      [] OTHER                        -> ""

(***************************************************************************)
(* Physician directories the service may have loaded at startup.           *)
(***************************************************************************)
Physician(id, specialty, lo, hi) ==
    [id |-> id, specialty |-> specialty, urgency_min |-> lo, urgency_max |-> hi]

Directories ==
    { <<>>,
      << Physician("p1", "Primary Care", 1, 3),
         Physician("p2", "urgent care", 2, 4),
         Physician("p3", "EMERGENCY MEDICINE", 4, 5),
         Physician("p4", "Cardiology", 3, 4) >> }

VARIABLES
    PHYSICIAN_DIRECTORY,     \* agents.PHYSICIAN_DIRECTORY, loaded once
    state,                   \* the TriageAgentState of the session
    clarifying_question,     \* pending clarifying question of the session
    clarification_attempts,  \* clarification-attempt counter of the session
    pc,                      \* node the graph runs next; "idle" between passes
    saved,                   \* the session as it was when the pass began
    turns,                   \* passes started so far
    ran,                     \* node bodies run in the current pass, in order
    calls,                   \* engine invocations of the current pass, in order
    triage_result,           \* validated triage response of the current pass
    matched,                 \* arguments handed to _select_physician in this pass
    outcome,                 \* the latest pass: none, running, ok, or how it failed
                             \* ("error": the call raised, "invalid": validation)
    physicians_json,         \* records of app/data/physicians.json
    PHYSICIANS,              \* main.PHYSICIANS, loaded once
    agents_loaded,           \* agents._load_physician_directory returned
    match_call,              \* the latest call of a matching function
    _sessions,               \* SessionStore._sessions
    now,                     \* datetime.utcnow(), in hours
    issued,                  \* ids uuid.uuid4() has returned so far
    store_call,              \* the latest call of a SessionStore method
    last_activity,           \* per stored id, the time of its latest activity
    requests,                \* POST /agent/invoke requests and their handlers
    _lock,                   \* SessionStore._lock: the task holding it, if any
    tasks,                   \* coroutines running SessionStore methods
    environ,                 \* names set in os.environ when main.py is imported
    service,                 \* main.py: importing, serving, or failed at import
    cached_token,            \* main.cached_token
    token_expiry,            \* main.token_expiry, in seconds
    token_lock,              \* main.token_lock: the thread holding it, if any
    time,                    \* time.time(), in seconds
    issued_tokens,           \* expires_on of each token the provider has issued
    callers                  \* threads calling POST /session or get_bearer_token

\* The session a graph pass works on.
workflowVars == << state, clarifying_question, clarification_attempts,
                   pc, saved, turns, ran, calls, triage_result, matched, outcome >>

\* The provider directory as the two modules hold it.
directoryVars == << physicians_json, PHYSICIAN_DIRECTORY, PHYSICIANS, agents_loaded >>

\* The session store and its clock.
storeVars == << _sessions, now, issued, store_call, last_activity >>

\* The handlers of main.invoke_agent on the event loop.
invokeVars == << requests >>

\* The store's lock and the coroutines contending for it.
lockVars == << _lock, tasks >>

\* The process environment, the token cache of main.py and its callers.
tokenVars == << environ, service, cached_token, token_expiry, token_lock,
               time, issued_tokens, callers >>

vars == << workflowVars, directoryVars, match_call, storeVars, invokeVars, lockVars, tokenVars >>

(***************************************************************************)
(* TriageAgentState.  A key that is absent from the dictionary is held as  *)
(* None for urgency_score and the two optional objects, and as the value   *)
(* its readers substitute for the others: FALSE for the two flags, "" for  *)
(* the strings, the empty list for red_flags.                              *)
(***************************************************************************)
\* dict.get(key, default) on an optional key.
Get(opt, default) == IF opt = None THEN default ELSE opt[1]

EmptyState ==
    [ urgency_score       |-> None,
      red_flags           |-> <<>>,
      handoff_ready       |-> FALSE,
      current_agent       |-> "",
      referral_required   |-> FALSE,
      recommended_setting |-> "",
      referral_package    |-> None,
      selected_physician  |-> None ]

(***************************************************************************)
(* What the reasoning engine may send back.  EngineError stands for every  *)
(* way the call itself fails (unreachable, authentication rejected).  A    *)
(* triage response has the fields of main.TriageOutput, which adds the     *)
(* optional clarifying_question to those of agents.TriageAgentOutput.      *)
(***************************************************************************)
WireUrgency == (UrgencyMin - 1) .. (UrgencyMax + 1)

TriageResponses ==
    [ urgency_score       : WireUrgency,
      red_flags           : {<<>>, <<"chest pain">>},
      handoff_ready       : BOOLEAN,
      clarifying_question : {None, Some("onset?")} ]

GuidanceResponses ==
    [ referral_required   : BOOLEAN,
      recommended_setting : CareSettings \cup {"Telehealth"} ]

ReferralResponses ==
    [ urgency_score : {UrgencyMin - 1, UrgencyMin, UrgencyMax + 1},
      disposition   : {"ED"} ]

EngineError == [error |-> "engine"]

\* Schema validation done by with_structured_output for each stage.
TriageAgentOutput_no_upper_bound(r) ==
    r.urgency_score >= UrgencyMin

TriageAgentOutput(r) ==
    r.urgency_score >= UrgencyMin /\ r.urgency_score <= UrgencyMax

ClinicalGuidanceOutput(r) ==
    r.recommended_setting \in CareSettings

ReferralPackageOutput(r) ==
    r.urgency_score >= UrgencyMin /\ r.urgency_score <= UrgencyMax

(***************************************************************************)
(* Directory matching rule.                                                *)
(***************************************************************************)
\* A filter whose upper end is exclusive.
RECURSIVE Eligible_exclusive_max(_, _)
Eligible_exclusive_max(directory, urgency_score) ==
    IF directory = <<>> THEN <<>>
    ELSE LET physician == Head(directory)
             rest      == Eligible_exclusive_max(Tail(directory), urgency_score)
         IN  IF physician.urgency_min <= urgency_score
                /\ urgency_score < physician.urgency_max
             THEN <<physician>> \o rest
             ELSE rest

\* The list comprehension building `eligible`: a filter that keeps order.
RECURSIVE Eligible(_, _)
Eligible(directory, urgency_score) ==
    IF directory = <<>> THEN <<>>
    ELSE LET physician == Head(directory)
             rest      == Eligible(Tail(directory), urgency_score)
         IN  IF physician.urgency_min <= urgency_score
                /\ urgency_score <= physician.urgency_max
             THEN <<physician>> \o rest
             ELSE rest

\* A loop that compares the specialty as it is written.
RECURSIVE FirstWithSpecialty_case_sensitive(_, _)
FirstWithSpecialty_case_sensitive(eligible, preferred) ==
    IF eligible = <<>> THEN None
    ELSE IF Head(eligible).specialty = preferred
         THEN Some(Head(eligible))
         ELSE FirstWithSpecialty_case_sensitive(Tail(eligible), preferred)

\* The for loop over `eligible`: first entry whose specialty is the preferred one.
RECURSIVE FirstWithSpecialty(_, _)
FirstWithSpecialty(eligible, preferred) ==
    IF eligible = <<>> THEN None
    ELSE IF Lower(Head(eligible).specialty) = Lower(preferred)
         THEN Some(Head(eligible))
         ELSE FirstWithSpecialty(Tail(eligible), preferred)

\* A rule without the fallback to the first eligible entry.
_select_physician_no_fallback(urgency_score, recommended_setting) ==
    IF PHYSICIAN_DIRECTORY = <<>> THEN None
    ELSE LET preferred == IF recommended_setting # ""
                          THEN preferred_specialty_map(Lower(recommended_setting))
                          ELSE ""
             eligible  == Eligible(PHYSICIAN_DIRECTORY, urgency_score)
         IN  IF preferred # "" THEN FirstWithSpecialty(eligible, preferred) ELSE None

_select_physician(urgency_score, recommended_setting) ==
    IF PHYSICIAN_DIRECTORY = <<>> THEN None
    ELSE LET preferred == IF recommended_setting # ""
                          THEN preferred_specialty_map(Lower(recommended_setting))
                          ELSE ""
             eligible  == Eligible(PHYSICIAN_DIRECTORY, urgency_score)
             hit       == IF preferred # ""
                          THEN FirstWithSpecialty(eligible, preferred)
                          ELSE None
         IN  IF hit # None THEN hit
             ELSE IF eligible # <<>> THEN Some(Head(eligible)) ELSE None

(***************************************************************************)
(* The directory file and its two loaders.  A record of physicians.json is *)
(* a JSON object: a function from the keys it has to their values.  Of the *)
(* required keys of PhysicianInfo the model keeps id, specialty,           *)
(* urgency_min and urgency_max (name and location are required strings     *)
(* like id and are not read by the matching rule).                         *)
(***************************************************************************)
RequiredKeys == {"id", "specialty", "urgency_min", "urgency_max"}

\* The PhysicianInfo constructor raises unless every required key is there.
PhysicianInfoValid(entry) == RequiredKeys \subseteq DOMAIN entry

\* A record of the file may write a number as a JSON string of digits.  The
\* field then holds the number the string spells and as_text names the key.
\* The PhysicianInfo constructor accepts such a value for an int field and
\* converts it; code that reads the raw record gets a str.
AsText(entry) == IF "as_text" \in DOMAIN entry THEN entry.as_text ELSE {}

\* The PhysicianInfo built from a record: the declared fields, numbers
\* converted; a key that is not a field of the class is ignored.
PhysicianInfo(entry) ==
    Physician(entry.id, entry.specialty, entry.urgency_min, entry.urgency_max)

\* Contents physicians.json may have.  A missing file loads as the empty list
\* in both modules, like the first one.
PhysicianFiles ==
    { <<>>,
      << Physician("p1", "Primary Care", 1, 3),
         Physician("p2", "urgent care", 2, 4),
         Physician("p3", "EMERGENCY MEDICINE", 4, 5),
         Physician("p4", "Cardiology", 3, 4) >>,
      << [id |-> "p5", specialty |-> "Cardiology", urgency_min |-> 2,
          urgency_max |-> 4, fax |-> "555"],
         Physician("p2", "urgent care", 2, 4),
         Physician("p6", "Urgent Care", 3, 3),
         Physician("p1", "Primary Care", 1, 3) >>,
      << Physician("p7", "Dermatology", 1, 2) >>,
      << [id |-> "p8", specialty |-> "Primary Care", urgency_min |-> 3],
         Physician("p1", "Primary Care", 1, 3) >>,
      << Physician("p1", "Primary Care", 1, 3),
         [id |-> "p9", urgency_min |-> 4, urgency_max |-> 5] >>,
      << [specialty |-> "Dermatology", urgency_min |-> 5, urgency_max |-> 5] >>,
      << Physician("p1", "Primary Care", 1, 3),
         [id |-> "p10", specialty |-> "Urgent Care", urgency_min |-> 4,
          urgency_max |-> 5, as_text |-> {"urgency_min"}] >> }

\* agents._load_physician_directory returns (it raises RuntimeError, and the
\* module fails to import, when an entry is invalid).
LoadsInAgents(file) == \A i \in 1 .. Len(file) : PhysicianInfoValid(file[i])

\* agents._load_physician_directory: every entry validated, in file order.
_load_physician_directory(file) == [i \in 1 .. Len(file) |-> PhysicianInfo(file[i])]

\* main._load_physicians: json.load, the records as they are.
_load_physicians(file) == file

(***************************************************************************)
(* main.match_physician works on the raw records.  A subscript on a key    *)
(* the record lacks raises KeyError and the PhysicianInfo constructor      *)
(* raises ValidationError on a record it rejects; either leaves the        *)
(* handler as an exception.                                                *)
(***************************************************************************)
Raised == [raised |-> TRUE, value |-> None]
Returned(v) == [raised |-> FALSE, value |-> v]

\* [p for p in PHYSICIANS if p["urgency_min"] <= urgency <= p["urgency_max"]]
\* The chained comparison reads p["urgency_max"] only when the first half holds;
\* comparing a str with the int urgency raises TypeError.
RECURSIVE RawEligible(_, _)
RawEligible(records, urgency) ==
    IF records = <<>> THEN Returned(<<>>)
    ELSE LET p    == Head(records)
             rest == RawEligible(Tail(records), urgency)
         IN  IF "urgency_min" \notin DOMAIN p THEN Raised
             ELSE IF "urgency_min" \in AsText(p) THEN Raised
             ELSE IF ~(p.urgency_min <= urgency) THEN rest
             ELSE IF "urgency_max" \notin DOMAIN p THEN Raised
             ELSE IF "urgency_max" \in AsText(p) THEN Raised
             ELSE IF rest.raised THEN Raised
             ELSE IF urgency <= p.urgency_max
                  THEN Returned(<<p>> \o rest.value)
                  ELSE rest

\* for p in eligible: if p["specialty"].lower() == preferred.lower(): return ...
RECURSIVE RawFirstWithSpecialty(_, _)
RawFirstWithSpecialty(eligible, preferred) ==
    IF eligible = <<>> THEN Returned(None)
    ELSE IF "specialty" \notin DOMAIN Head(eligible) THEN Raised
    ELSE IF Lower(Head(eligible).specialty) = Lower(preferred)
         THEN Returned(Some(Head(eligible)))
         ELSE RawFirstWithSpecialty(Tail(eligible), preferred)

\* return PhysicianInfo(... the record p ...)
Construct(p) ==
    IF PhysicianInfoValid(p) THEN Returned(Some(PhysicianInfo(p))) ELSE Raised

match_physician(urgency, setting) ==
    LET preferred == preferred_specialty_map(Lower(setting))
        eligible  == RawEligible(PHYSICIANS, urgency)
    IN  IF eligible.raised THEN Raised
        ELSE LET hit == IF preferred # ""
                        THEN RawFirstWithSpecialty(eligible.value, preferred)
                        ELSE Returned(None)
             IN  IF hit.raised THEN Raised
                 ELSE IF hit.value # None THEN Construct(hit.value[1])
                 ELSE IF eligible.value # <<>>
                      THEN Construct(Head(eligible.value))
                      ELSE Returned(None)

\* GET /physicians: [PhysicianInfo(... p ...) for p in PHYSICIANS]
get_physicians ==
    IF \A i \in 1 .. Len(PHYSICIANS) : PhysicianInfoValid(PHYSICIANS[i])
    THEN Returned([i \in 1 .. Len(PHYSICIANS) |-> PhysicianInfo(PHYSICIANS[i])])
    ELSE Raised

(***************************************************************************)
(* Node bodies: the merge each node performs once its engine call has      *)
(* returned a validated result r.                                          *)
(***************************************************************************)
triage_agent(s, r) ==
    [s EXCEPT !.urgency_score = Some(r.urgency_score),
              !.red_flags     = r.red_flags,
              !.handoff_ready = r.handoff_ready,
              !.current_agent = "triage"]

clinical_guidance_agent_wrong_tag(s, r) ==
    [s EXCEPT !.referral_required   = r.referral_required,
              !.recommended_setting = r.recommended_setting,
              !.current_agent       = "triage"]

clinical_guidance_agent(s, r) ==
    [s EXCEPT !.referral_required   = r.referral_required,
              !.recommended_setting = r.recommended_setting,
              !.current_agent       = "clinical_guidance"]

referral_builder_agent_no_package(s, r) ==
    [s EXCEPT !.selected_physician =
                  _select_physician(Get(s.urgency_score, 0), s.recommended_setting),
              !.current_agent      = "referral_builder"]

referral_builder_agent(s, r) ==
    [s EXCEPT !.referral_package   = Some(r),
              !.selected_physician =
                  _select_physician(Get(s.urgency_score, 0), s.recommended_setting),
              !.current_agent      = "referral_builder"]

(***************************************************************************)
(* Clarification-loop policy of the orchestrator, applied to a validated   *)
(* triage response r with the session's attempt counter n.  The backend    *)
(* only declares the clarifying_question of a triage response and states   *)
(* the two-question limit in its triage prompt; main.invoke_agent is a     *)
(* stateless proxy and leaves the counter to its caller.  The policy is    *)
(* therefore taken from the workflow specification (section 4.3).          *)
(***************************************************************************)
ClarificationPolicy_no_cap(r, n) ==
    IF ~r.handoff_ready /\ r.clarifying_question # None
    THEN [handoff_ready |-> FALSE,
          clarifying_question |-> r.clarifying_question,
          clarification_attempts |-> n + 1]
    ELSE [handoff_ready |-> r.handoff_ready,
          clarifying_question |-> r.clarifying_question,
          clarification_attempts |-> IF r.handoff_ready THEN 0 ELSE n]

ClarificationPolicy_keeps_question(r, n) ==
    IF ~r.handoff_ready /\ r.clarifying_question # None
    THEN IF n >= ClarificationCap
         THEN [handoff_ready |-> TRUE,
               clarifying_question |-> r.clarifying_question,
               clarification_attempts |-> 0]
         ELSE [handoff_ready |-> FALSE,
               clarifying_question |-> r.clarifying_question,
               clarification_attempts |-> n + 1]
    ELSE [handoff_ready |-> r.handoff_ready,
          clarifying_question |-> r.clarifying_question,
          clarification_attempts |-> IF r.handoff_ready THEN 0 ELSE n]

ClarificationPolicy(r, n) ==
    IF ~r.handoff_ready /\ r.clarifying_question # None
    THEN IF n >= ClarificationCap
         THEN [handoff_ready |-> TRUE,
               clarifying_question |-> None,
               clarification_attempts |-> 0]
         ELSE [handoff_ready |-> FALSE,
               clarifying_question |-> r.clarifying_question,
               clarification_attempts |-> n + 1]
    ELSE [handoff_ready |-> r.handoff_ready,
          clarifying_question |-> r.clarifying_question,
          clarification_attempts |-> IF r.handoff_ready THEN 0 ELSE n]

(***************************************************************************)
(* Routing.                                                                *)
(***************************************************************************)
_route_after_triage_always_end(s) == "end"

_route_after_triage_always_advance(s) == "clinical_guidance"

_route_after_triage_red_flag_or_urgent(s) ==
    IF s.handoff_ready \/ s.red_flags # <<>> \/ Get(s.urgency_score, 0) >= 4
    THEN "clinical_guidance" ELSE "end"

_route_after_triage(s) ==
    IF s.handoff_ready THEN "clinical_guidance" ELSE "end"

_route_after_guidance_always_referral(s) == "referral_builder"

_route_after_guidance(s) ==
    IF s.referral_required THEN "referral_builder" ELSE "end"

\* The edge tables of create_triage_graph: END closes the pass.
Target_end_reenters_triage(label) == IF label = "end" THEN "triage" ELSE label

Target(label) == IF label = "end" THEN "idle" ELSE label

(***************************************************************************)
(* The session and the passes of the graph over it.                        *)
(***************************************************************************)
Snapshot(s, q, n) ==
    [state |-> s, clarifying_question |-> q, clarification_attempts |-> n]

\* The empty dictionary.
NoSessions == [sid \in {} |-> None]

\* Module import: both loaders read physicians.json once.
DirectoryInit(file) ==
    /\ physicians_json = file
    /\ PHYSICIANS = _load_physicians(file)
    /\ agents_loaded = LoadsInAgents(file)
    /\ PHYSICIAN_DIRECTORY =
           IF LoadsInAgents(file) THEN _load_physician_directory(file) ELSE <<>>

\* SessionStore.__init__: no session; the clock starts at 0.
StoreInit ==
    /\ _sessions = NoSessions
    /\ now = 0
    /\ issued = {}
    /\ store_call = None
    /\ last_activity = NoSessions

WorkflowInit ==
    /\ state = EmptyState
    /\ clarifying_question = None
    /\ clarification_attempts = 0
    /\ pc = "idle"
    /\ saved = Snapshot(EmptyState, None, 0)
    /\ turns = 0
    /\ ran = <<>>
    /\ calls = <<>>
    /\ triage_result = None
    /\ matched = <<>>
    /\ outcome = "none"

\* Requests a client may post to /agent/invoke, and the record of one that
\* has not been posted.
RequestIds == {"r1", "r2"}
NoRequest ==
    [ session |-> "", agent_type |-> "", stage |-> "unsent",
      reply |-> None, response |-> None ]

\* No request has reached the server.
InvokeInit == requests = [rid \in RequestIds |-> NoRequest]

\* Coroutines that call the store, and the record of one that has not started.
TaskIds == {"t1", "t2", "t3"}
NoTask ==
    [ op |-> "", session_id |-> "", pc |-> "idle", expired_ids |-> {},
      scanned |-> NoSessions, ok |-> FALSE, count |-> 0 ]

\* asyncio.Lock() in SessionStore.__init__: not held; no coroutine runs.
LockInit ==
    /\ _lock = None
    /\ tasks = [t \in TaskIds |-> NoTask]

\* The settings main.py reads from the environment without a default.
Settings ==
    {"AZURE_OPENAI_ENDPOINT", "AZURE_OPENAI_API_KEY", "AZURE_OPENAI_DEPLOYMENT_NAME"}

\* A thread that is not in a call.
NoCall ==
    [ pc |-> "idle", current_time |-> 0, seen_token |-> None, seen_expiry |-> 0,
      token |-> None, contacted |-> FALSE, returned |-> None,
      outcome |-> "", cause |-> "" ]

\* main.py before its first request: cached_token = None, token_expiry = 0,
\* token_lock free; the environment is one of `settings`.
TokenInit(settings, loaded, threads) ==
    /\ environ \in settings
    /\ service = loaded
    /\ cached_token = None
    /\ token_expiry = 0
    /\ token_lock = None
    /\ time = 0
    /\ issued_tokens = << >>
    /\ callers = [t \in threads |-> NoCall]

Init ==
    /\ \E file \in Directories : DirectoryInit(file)
    /\ WorkflowInit
    /\ match_call = None
    /\ StoreInit
    /\ InvokeInit
    /\ LockInit
    /\ TokenInit({Settings}, "serving", {"a"})

\* What a step of the workflow leaves alone.
outsideWorkflow == << physicians_json, PHYSICIANS, agents_loaded, match_call,
                      storeVars, invokeVars, lockVars, tokenVars >>

\* Entry point that would resume after the stage the session completed last.
EntryPoint_resume ==
    IF state.current_agent = "" THEN "triage" ELSE "clinical_guidance"

\* workflow.set_entry_point("triage")
EntryPoint == "triage"

\* A user turn arrives: the compiled graph is invoked on the session's state and
\* starts at its entry point.
NewTurn ==
    /\ pc = "idle"
    /\ turns < MaxTurns
    /\ turns' = turns + 1
    /\ pc' = EntryPoint
    /\ saved' = Snapshot(state, clarifying_question, clarification_attempts)
    /\ ran' = <<>>
    /\ calls' = <<>>
    /\ triage_result' = None
    /\ matched' = <<>>
    /\ outcome' = "running"
    /\ UNCHANGED << PHYSICIAN_DIRECTORY, state, clarifying_question,
                    clarification_attempts >>
    /\ UNCHANGED outsideWorkflow

\* The two ways a pass fails.
Failed(o) == o \in {"error", "invalid"}

\* A failure that leaves the merges of the stages that ran before it in place.
Abort_keeps_partial(r) ==
    /\ UNCHANGED << state, clarifying_question, clarification_attempts >>
    /\ pc' = "idle"
    /\ outcome' = IF r = EngineError THEN "error" ELSE "invalid"
    /\ UNCHANGED saved

\* The engine call of a node raised, or its response failed validation: the
\* exception leaves the graph, no result is returned and the session keeps the
\* state it had before the pass.
Abort(r) ==
    /\ state' = saved.state
    /\ clarifying_question' = saved.clarifying_question
    /\ clarification_attempts' = saved.clarification_attempts
    /\ pc' = "idle"
    /\ outcome' = IF r = EngineError THEN "error" ELSE "invalid"
    /\ UNCHANGED saved

\* A node finished and its outgoing edge led to `next`.
Proceed(s, q, n, next) ==
    /\ state' = s
    /\ clarifying_question' = q
    /\ clarification_attempts' = n
    /\ pc' = next
    /\ outcome' = IF next = "idle" THEN "ok" ELSE "running"
    /\ saved' = IF next = "idle" THEN Snapshot(s, q, n) ELSE saved

TriageNode ==
    /\ pc = "triage"
    /\ ran' = Append(ran, "triage")
    /\ calls' = Append(calls, "triage")
    /\ \E r \in TriageResponses \cup {EngineError} :
         IF r # EngineError /\ TriageAgentOutput(r)
         THEN LET policy == ClarificationPolicy(r, clarification_attempts)
                  s      == [triage_agent(state, r) EXCEPT
                                !.handoff_ready = policy.handoff_ready]
              IN  /\ triage_result' = Some(r)
                  /\ Proceed(s, policy.clarifying_question,
                             policy.clarification_attempts,
                             Target(_route_after_triage(s)))
         ELSE /\ triage_result' = None
              /\ Abort(r)
    /\ UNCHANGED << PHYSICIAN_DIRECTORY, turns, matched >>
    /\ UNCHANGED outsideWorkflow

ClinicalGuidanceNode ==
    /\ pc = "clinical_guidance"
    /\ ran' = Append(ran, "clinical_guidance")
    /\ calls' = Append(calls, "clinical_guidance")
    /\ \E r \in GuidanceResponses \cup {EngineError} :
         IF r # EngineError /\ ClinicalGuidanceOutput(r)
         THEN LET s == clinical_guidance_agent(state, r)
              IN  Proceed(s, clarifying_question, clarification_attempts,
                          Target(_route_after_guidance(s)))
         ELSE Abort(r)
    /\ UNCHANGED << PHYSICIAN_DIRECTORY, turns, triage_result, matched >>
    /\ UNCHANGED outsideWorkflow

ReferralBuilderNode ==
    /\ pc = "referral_builder"
    /\ ran' = Append(ran, "referral_builder")
    /\ IF ~state.referral_required
       THEN \* early return: no engine call, state returned as it is
            /\ calls' = calls
            /\ matched' = matched
            /\ Proceed(state, clarifying_question, clarification_attempts, "idle")
       ELSE /\ calls' = Append(calls, "referral_builder")
            /\ \E r \in ReferralResponses \cup {EngineError} :
                 IF r # EngineError /\ ReferralPackageOutput(r)
                 THEN /\ matched' = Append(matched,
                             << Get(state.urgency_score, 0),
                                state.recommended_setting >>)
                      /\ Proceed(referral_builder_agent(state, r),
                                 clarifying_question, clarification_attempts, "idle")
                 ELSE /\ matched' = matched
                      /\ Abort(r)
    /\ UNCHANGED << PHYSICIAN_DIRECTORY, turns, triage_result >>
    /\ UNCHANGED outsideWorkflow

Next ==
    \/ NewTurn
    \/ TriageNode
    \/ ClinicalGuidanceNode
    \/ ReferralBuilderNode

Spec == Init /\ [][Next]_vars

(***************************************************************************)
(* The matching rule on its own: the service has loaded some               *)
(* physicians.json and the two matching functions are called with any      *)
(* urgency and any setting.                                                *)
(***************************************************************************)
\* Urgency values a caller may pass: the query parameter of main is any int,
\* the workflow passes state.get("urgency_score", 0).
MatchUrgencies == WireUrgency

MatchSettings == CareSettings \cup {"", "urgent care", "URGENT CARE", "Telehealth"}

MatchInit ==
    /\ \E file \in PhysicianFiles : DirectoryInit(file)
    /\ WorkflowInit
    /\ match_call = None
    /\ StoreInit
    /\ InvokeInit
    /\ LockInit
    /\ TokenInit({Settings}, "serving", {"a"})

\* A call of agents._select_physician; agents.py was imported.
SelectPhysician ==
    /\ agents_loaded
    /\ \E urgency \in MatchUrgencies, setting \in MatchSettings :
         match_call' = Some([impl    |-> "agents",
                             urgency |-> urgency,
                             setting |-> setting,
                             ret     |-> Returned(_select_physician(urgency, setting))])
    /\ UNCHANGED << workflowVars, directoryVars, storeVars, invokeVars, lockVars, tokenVars >>

\* A request GET /physicians/match of main.py.
MatchPhysician ==
    /\ \E urgency \in MatchUrgencies, setting \in MatchSettings :
         match_call' = Some([impl    |-> "main",
                             urgency |-> urgency,
                             setting |-> setting,
                             ret     |-> match_physician(urgency, setting)])
    /\ UNCHANGED << workflowVars, directoryVars, storeVars, invokeVars, lockVars, tokenVars >>

MatchNext ==
    \/ SelectPhysician
    \/ MatchPhysician

MatchSpec == MatchInit /\ [][MatchNext]_vars

(***************************************************************************)
(* The session store (session_store.py).  Every method body runs under the *)
(* store's lock and is one step.  The clock is datetime.utcnow() in hours. *)
(***************************************************************************)
SessionIds == {"s1", "s2"}
Languages == {"en"}
Chunks == {"hello"}

\* A constructor that leaves a chunk and a terminal status in the new object.
IntakeSessionState_prefilled(session_id, user_language, start_time) ==
    [ session_id         |-> session_id,
      user_language      |-> user_language,
      start_time         |-> start_time,
      transcript_chunks  |-> << "hello" >>,
      final_transcript   |-> "",
      extracted_symptoms |-> None,
      status             |-> "completed",
      error_message      |-> None ]

\* IntakeSessionState(session_id=..., user_language=..., start_time=...)
IntakeSessionState(session_id, user_language, start_time) ==
    [ session_id         |-> session_id,
      user_language      |-> user_language,
      start_time         |-> start_time,
      transcript_chunks  |-> <<>>,
      final_transcript   |-> "",
      extracted_symptoms |-> None,
      status             |-> "active",
      error_message      |-> None ]

\* dict operations on _sessions.
Stored(sid) == sid \in DOMAIN _sessions
Put(dict, key, value) ==
    [k \in DOMAIN dict \cup {key} |-> IF k = key THEN value ELSE dict[k]]
Remove(dict, keys) == [k \in DOMAIN dict \ keys |-> dict[k]]

\* An expiry test that never fires.
_is_expired_never(session) == FALSE

\* datetime.utcnow() - session.start_time > self._ttl
_is_expired(session) == now - session.start_time > session_ttl_hours

\* Keyword arguments a caller may hand to update_session.
Updates ==
    { [status |-> "timeout"], [start_time |-> now], [priority |-> "high"] }

\* for key, value in updates.items(): if hasattr(session, key): setattr(...)
ApplyUpdates(session, updates) ==
    [f \in DOMAIN session |-> IF f \in DOMAIN updates THEN updates[f] ELSE session[f]]

\* A route that ignores what the store reported.
DeleteStatus_always_ok(success) == 200

\* routes.delete_session: 404 unless the store reported success.
DeleteStatus(success) == IF success THEN 200 ELSE 404

\* The routes that look a session up (get_session, handle_webrtc_offer,
\* handle_ice_candidates): 404 if the store returned None.
LookupStatus(session) == IF session = None THEN 404 ELSE 200

\* len() of the strings a final transcript takes here.
StrLen(s) == CASE s = "" -> 0 [] s = "final" -> 5

\* The body routes.get_session answers with for a session the store returned.
SessionView(session) ==
    [ session_id         |-> session.session_id,
      status             |-> session.status,
      language           |-> session.user_language,
      start_time         |-> session.start_time,
      transcript_length  |-> StrLen(session.final_transcript),
      extracted_symptoms |-> session.extracted_symptoms ]

\* What a step of the store leaves alone.
outsideStore == << workflowVars, directoryVars, match_call, invokeVars, lockVars, tokenVars >>

\* The call that just ran, with what it returned: the session (None when the
\* method returns None or no session), the bool, the int, and the status code
\* of the route where the model follows the call into routes.py.  A field the
\* method does not return holds None, FALSE or 0.
Called(op, sid, session, ok, count, http) ==
    Some([op |-> op, session_id |-> sid, session |-> session, ok |-> ok,
          count |-> count, http |-> http, raised |-> FALSE])

\* The call raised before its body ran: it returned nothing.
RaisedCall(op, sid) ==
    Some([op |-> op, session_id |-> sid, session |-> None, ok |-> FALSE,
          count |-> 0, http |-> None, raised |-> TRUE])
ReturnedSession(op, sid, session) == Called(op, sid, session, FALSE, 0, None)
ReturnedBool(op, sid, ok) == Called(op, sid, None, ok, 0, None)
ReturnedCount(op, count) == Called(op, "", None, FALSE, count, None)

\* str(uuid.uuid4()): a random 122-bit identifier, taken never to repeat one
\* this store has issued; the bounded pool SessionIds stands for the id space.
uuid4_may_repeat == SessionIds

uuid4 == SessionIds \ issued

create_session(user_language) ==
    /\ \E session_id \in uuid4 :
         LET session == IntakeSessionState(session_id, user_language, now)
         IN  /\ issued' = issued \cup {session_id}
             /\ _sessions' = Put(_sessions, session_id, session)
             /\ last_activity' = Put(last_activity, session_id, now)
             /\ store_call' = ReturnedSession("create_session", session_id,
                                              Some(session))
    /\ UNCHANGED now
    /\ UNCHANGED outsideStore

\* The session get_session returns, with the status code of the route.
ReturnedLookup(op, sid, session) ==
    Called(op, sid, session, FALSE, 0, Some(LookupStatus(session)))

\* A get that takes the entry out of the store as it returns it.
get_session_consuming(session_id) ==
    /\ store_call' = ReturnedLookup("get_session", session_id,
                         IF Stored(session_id) /\ ~_is_expired(_sessions[session_id])
                         THEN Some(_sessions[session_id]) ELSE None)
    /\ _sessions' = Remove(_sessions, {session_id})
    /\ last_activity' = Remove(last_activity, {session_id})
    /\ UNCHANGED << now, issued >>
    /\ UNCHANGED outsideStore

get_session(session_id) ==
    /\ IF Stored(session_id) /\ _is_expired(_sessions[session_id])
       THEN /\ _sessions' = Remove(_sessions, {session_id})
            /\ last_activity' = Remove(last_activity, {session_id})
            /\ store_call' = ReturnedLookup("get_session", session_id, None)
       ELSE /\ store_call' = ReturnedLookup("get_session", session_id,
                                    IF Stored(session_id)
                                    THEN Some(_sessions[session_id]) ELSE None)
            /\ UNCHANGED << _sessions, last_activity >>
    /\ UNCHANGED << now, issued >>
    /\ UNCHANGED outsideStore

\* An update_session whose keyword arguments may carry session_id.
update_session_rebinding(session_id, updates) ==
    /\ IF ~Stored(session_id)
       THEN /\ store_call' = ReturnedSession("update_session", session_id, None)
            /\ UNCHANGED << _sessions, last_activity >>
       ELSE LET session == ApplyUpdates(_sessions[session_id], updates)
            IN  /\ _sessions' = Put(_sessions, session_id, session)
                /\ last_activity' = Put(last_activity, session_id, now)
                /\ store_call' = ReturnedSession("update_session", session_id,
                                               Some(session))
    /\ UNCHANGED << now, issued >>
    /\ UNCHANGED outsideStore

\* update_session(self, session_id, **updates): a keyword named session_id
\* is a second value for the parameter and the call raises TypeError before
\* the body runs.
update_session(session_id, updates) ==
    /\ IF "session_id" \in DOMAIN updates
       THEN /\ store_call' = RaisedCall("update_session", session_id)
            /\ UNCHANGED << _sessions, last_activity >>
       ELSE IF ~Stored(session_id)
       THEN /\ store_call' = ReturnedSession("update_session", session_id, None)
            /\ UNCHANGED << _sessions, last_activity >>
       ELSE LET session == ApplyUpdates(_sessions[session_id], updates)
            IN  /\ _sessions' = Put(_sessions, session_id, session)
                /\ last_activity' = Put(last_activity, session_id, now)
                /\ store_call' = ReturnedSession("update_session", session_id,
                                               Some(session))
    /\ UNCHANGED << now, issued >>
    /\ UNCHANGED outsideStore

\* A mutator that writes the session it built over every stored entry.
Mutate_every_entry(op, session_id, session) ==
    /\ IF ~Stored(session_id)
       THEN /\ store_call' = ReturnedBool(op, session_id, FALSE)
            /\ UNCHANGED << _sessions, last_activity >>
       ELSE /\ _sessions' = [k \in DOMAIN _sessions |-> session]
            /\ last_activity' = Put(last_activity, session_id, now)
            /\ store_call' = ReturnedBool(op, session_id, TRUE)
    /\ UNCHANGED << now, issued >>
    /\ UNCHANGED outsideStore

\* The part the three bool-returning mutators share: look the session up,
\* return False if it is not stored, else store `session` and return True.
Mutate(op, session_id, session) ==
    /\ IF ~Stored(session_id)
       THEN /\ store_call' = ReturnedBool(op, session_id, FALSE)
            /\ UNCHANGED << _sessions, last_activity >>
       ELSE /\ _sessions' = Put(_sessions, session_id, session)
            /\ last_activity' = Put(last_activity, session_id, now)
            /\ store_call' = ReturnedBool(op, session_id, TRUE)
    /\ UNCHANGED << now, issued >>
    /\ UNCHANGED outsideStore

\* The transcript of the session has fewer than n chunks: bounds the appends.
Room(session_id, n) ==
    Stored(session_id) => Len(_sessions[session_id].transcript_chunks) < n

add_transcript_chunk(session_id, chunk) ==
    /\ Mutate("add_transcript_chunk", session_id,
              IF Stored(session_id)
              THEN [_sessions[session_id] EXCEPT
                       !.transcript_chunks = Append(@, chunk)]
              ELSE None)

mark_completed(session_id, final_transcript, extracted_symptoms) ==
    Mutate("mark_completed", session_id,
           IF Stored(session_id)
           THEN [_sessions[session_id] EXCEPT
                    !.status = "completed",
                    !.final_transcript = final_transcript,
                    !.extracted_symptoms = Some(extracted_symptoms)]
           ELSE None)

mark_error(session_id, error_message) ==
    Mutate("mark_error", session_id,
           IF Stored(session_id)
           THEN [_sessions[session_id] EXCEPT
                    !.status = "error",
                    !.error_message = Some(error_message)]
           ELSE None)

delete_session(session_id) ==
    /\ IF Stored(session_id)
       THEN /\ _sessions' = Remove(_sessions, {session_id})
            /\ last_activity' = Remove(last_activity, {session_id})
       ELSE UNCHANGED << _sessions, last_activity >>
    /\ store_call' = Called("delete_session", session_id, None,
                            Stored(session_id), 0,
                            Some(DeleteStatus(Stored(session_id))))
    /\ UNCHANGED << now, issued >>
    /\ UNCHANGED outsideStore

cleanup_expired_sessions ==
    /\ LET expired_ids == { sid \in DOMAIN _sessions : _is_expired(_sessions[sid]) }
       IN  /\ _sessions' = Remove(_sessions, expired_ids)
           /\ last_activity' = Remove(last_activity, expired_ids)
           /\ store_call' = ReturnedCount("cleanup_expired_sessions",
                                          Cardinality(expired_ids))
    /\ UNCHANGED << now, issued >>
    /\ UNCHANGED outsideStore

\* A count of the active entries that does not look at their age.
get_active_session_count_ignoring_expiry ==
    /\ store_call' = ReturnedCount("get_active_session_count",
                            Cardinality({ sid \in DOMAIN _sessions :
                                            _sessions[sid].status = "active" }))
    /\ UNCHANGED << _sessions, now, issued, last_activity >>
    /\ UNCHANGED outsideStore

\* A count of the unexpired entries that does not look at their status.
get_active_session_count_any_status ==
    /\ store_call' = ReturnedCount("get_active_session_count",
                            Cardinality({ sid \in DOMAIN _sessions :
                                            ~_is_expired(_sessions[sid]) }))
    /\ UNCHANGED << _sessions, now, issued, last_activity >>
    /\ UNCHANGED outsideStore

get_active_session_count ==
    /\ store_call' = ReturnedCount("get_active_session_count",
                            Cardinality({ sid \in DOMAIN _sessions :
                                            /\ _sessions[sid].status = "active"
                                            /\ ~_is_expired(_sessions[sid]) }))
    /\ UNCHANGED << _sessions, now, issued, last_activity >>
    /\ UNCHANGED outsideStore

\* Time passes.
Tick ==
    /\ now + TickHours <= MaxTime
    /\ now' = now + TickHours
    /\ UNCHANGED << _sessions, issued, store_call, last_activity >>
    /\ UNCHANGED outsideStore

StoreNext ==
    \/ \E user_language \in Languages : create_session(user_language)
    \/ \E session_id \in SessionIds : get_session(session_id)
    \/ \E session_id \in SessionIds, updates \in Updates :
           update_session(session_id, updates)
    \/ \E session_id \in SessionIds, chunk \in Chunks :
           Room(session_id, MaxChunks) /\ add_transcript_chunk(session_id, chunk)
    \/ \E session_id \in SessionIds :
           mark_completed(session_id, "final", [chief_complaint |-> "cough"])
    \/ \E session_id \in SessionIds : mark_error(session_id, "failed")
    \/ \E session_id \in SessionIds : delete_session(session_id)
    \/ cleanup_expired_sessions
    \/ get_active_session_count
    \/ Tick

\* The service has started with no physicians.json and no session.
StoreOnlyInit ==
    /\ DirectoryInit(<<>>)
    /\ WorkflowInit
    /\ match_call = None
    /\ StoreInit
    /\ InvokeInit
    /\ LockInit
    /\ TokenInit({Settings}, "serving", {"a"})

StoreSpec == StoreOnlyInit /\ [][StoreNext]_vars

(***************************************************************************)
(* The store under callers that hand update_session the names of fields    *)
(* the other methods maintain, with transcripts of distinct chunks.        *)
(***************************************************************************)
Overwrites ==
    { [transcript_chunks |-> << >>], [session_id |-> "s2"], [status |-> "timeout"] }

OverwriteNext ==
    \/ \E user_language \in Languages : create_session(user_language)
    \/ \E session_id \in SessionIds, chunk \in {"first", "second"} :
           Room(session_id, MaxChunks + 1) /\ add_transcript_chunk(session_id, chunk)
    \/ \E session_id \in SessionIds, updates \in Overwrites :
           update_session(session_id, updates)
    \/ \E session_id \in SessionIds : get_session(session_id)
    \/ \E session_id \in SessionIds :
           mark_completed(session_id, "final", [chief_complaint |-> "cough"])
    \/ \E session_id \in SessionIds : mark_error(session_id, "failed")
    \/ \E session_id \in SessionIds : delete_session(session_id)
    \/ cleanup_expired_sessions

OverwriteSpec == StoreOnlyInit /\ [][OverwriteNext]_vars

(***************************************************************************)
(* POST /agent/invoke (main.invoke_agent).  The handler is a coroutine on  *)
(* the server's event loop; it calls the engine with the synchronous       *)
(* structured_llm.invoke and contains no await.  The session a request     *)
(* belongs to is the client's: the request carries no session identifier.  *)
(***************************************************************************)
AgentTypes == {"triage", "clinical_guidance", "referral_builder"}

\* What the engine sends back to invoke_agent, by schema.  response_text is
\* None when the field is missing from the engine's output.
TriageReplies ==
    [ urgency_score : WireUrgency,
      response_text : {None, Some("How long has it hurt?")} ]

GuidanceReplies ==
    [ recommended_setting : {"Urgent Care", "Telehealth"},
      response_text       : {None, Some("Please visit urgent care.")} ]

ReferralReplies ==
    [ urgency_score : {UrgencyMin - 1, UrgencyMax, UrgencyMax + 1},
      response_text : {None, Some("I have prepared your referral.")} ]

\* The engine answered without a structured output: invoke returns None.
NoStructuredOutput == [output |-> "none"]

Replies(agent_type) ==
    {EngineError, NoStructuredOutput} \cup
    CASE agent_type = "triage"            -> TriageReplies
      [] agent_type = "clinical_guidance" -> GuidanceReplies
      [] agent_type = "referral_builder"  -> ReferralReplies

AllReplies == UNION { Replies(agent_type) : agent_type \in AgentTypes }

\* The schemas of main.py handed to with_structured_output.
TriageOutput(r) ==
    /\ r.urgency_score >= UrgencyMin /\ r.urgency_score <= UrgencyMax
    /\ r.response_text # None

ClinicalGuidanceOutput_main(r) ==
    /\ r.recommended_setting \in CareSettings
    /\ r.response_text # None

ReferralOutput(r) ==
    /\ r.urgency_score >= UrgencyMin /\ r.urgency_score <= UrgencyMax
    /\ r.response_text # None

\* structured_llm.invoke returns an instance of the schema.
Validates(agent_type, reply) ==
    /\ reply \notin {EngineError, NoStructuredOutput}
    /\ CASE agent_type = "triage"            -> TriageOutput(reply)
         [] agent_type = "clinical_guidance" -> ClinicalGuidanceOutput_main(reply)
         [] agent_type = "referral_builder"  -> ReferralOutput(reply)

\* result.model_dump(): the validated fields as a dict; response_text is a str.
model_dump(result) == [result EXCEPT !.response_text = result.response_text[1]]

\* What the client receives: an error status, or 200 with the response model.
HTTPException(status_code) ==
    [ status_code |-> status_code, agent_type |-> "", response_text |-> "",
      structured_output |-> None ]

AgentInvokeResponse(agent_type, response_text, structured_output) ==
    [ status_code |-> 200, agent_type |-> agent_type,
      response_text |-> response_text,
      structured_output |-> Some(structured_output) ]

\* A handler that passes on whatever the engine sent.
invoke_agent_unvalidated(agent_type, reply) ==
    IF reply = EngineError
    THEN HTTPException(500)
    ELSE AgentInvokeResponse(agent_type, "", reply)

\* The try block of invoke_agent: every exception raised in it (by the engine
\* call, by validation, by reading result.response_text of None) is caught by
\* `except Exception` and answered with 500.
invoke_agent(agent_type, reply) ==
    IF Validates(agent_type, reply)
    THEN AgentInvokeResponse(agent_type, reply.response_text[1], model_dump(reply))
    ELSE HTTPException(500)

\* An engine call that is awaited, so that the loop runs other handlers.
SyncInvoke_awaited == FALSE

\* structured_llm.invoke is a blocking call made on the event loop.
SyncInvoke == TRUE

InFlight == { rid \in RequestIds : requests[rid].stage = "in_flight" }

\* The event loop can start a handler: none is running, or the running ones
\* are suspended at an awaited engine call.
LoopFree == InFlight = {} \/ ~SyncInvoke

\* A client posts a request for one of its sessions.
Post(rid, session_id, agent_type) ==
    /\ requests[rid].stage = "unsent"
    /\ requests' = [requests EXCEPT ![rid] =
                       [NoRequest EXCEPT !.session = session_id,
                                         !.agent_type = agent_type,
                                         !.stage = "queued"]]
    /\ UNCHANGED << workflowVars, directoryVars, match_call, storeVars, lockVars, tokenVars >>

\* The event loop runs the handler of a request up to its engine call.
Handle(rid) ==
    /\ requests[rid].stage = "queued"
    /\ LoopFree
    /\ requests' = [requests EXCEPT ![rid].stage = "in_flight"]
    /\ UNCHANGED << workflowVars, directoryVars, match_call, storeVars, lockVars, tokenVars >>

\* The engine call ends and the handler runs to its response.
EngineReturns(rid, reply) ==
    /\ requests[rid].stage = "in_flight"
    /\ reply \in Replies(requests[rid].agent_type)
    /\ requests' = [requests EXCEPT
                       ![rid].stage = "done",
                       ![rid].reply = Some(reply),
                       ![rid].response =
                           Some(invoke_agent(requests[rid].agent_type, reply))]
    /\ UNCHANGED << workflowVars, directoryVars, match_call, storeVars, lockVars, tokenVars >>

InvokeNext ==
    \/ \E rid \in RequestIds, session_id \in SessionIds, agent_type \in AgentTypes :
           Post(rid, session_id, agent_type)
    \/ \E rid \in RequestIds : Handle(rid)
    \/ \E rid \in RequestIds, reply \in AllReplies : EngineReturns(rid, reply)

\* The service has started; no request has been posted.
InvokeOnlyInit ==
    /\ DirectoryInit(<<>>)
    /\ WorkflowInit
    /\ match_call = None
    /\ StoreInit
    /\ InvokeInit
    /\ LockInit
    /\ TokenInit({Settings}, "serving", {"a"})

InvokeSpec == InvokeOnlyInit /\ [][InvokeNext]_vars

(***************************************************************************)
(* The store under concurrent callers.  Each method of SessionStore runs   *)
(* its body inside `async with self._lock`; here a body is taken apart     *)
(* into its statements (look the session up, change it; list the expired   *)
(* ids, delete them) and coroutines interleave wherever the lock lets      *)
(* them, which covers every schedule of the event loop.                    *)
(***************************************************************************)
TurnTasks == {"t1", "t2"}
SweepTask == "t3"
TurnOps == {"add_transcript_chunk", "update_session"}

\* What the turn of each coroutine carries: the chunk it appends, or the
\* keyword arguments it hands to update_session.
TurnChunk(t) == IF t = "t1" THEN "first" ELSE "second"
TurnUpdates(t) ==
    IF t = "t1" THEN [status |-> "paused"] ELSE [user_language |-> "fr"]

\* The change the body of the method makes to the session it looked up.
ApplyTurn(t, op, session) ==
    IF op = "add_transcript_chunk"
    THEN [session EXCEPT !.transcript_chunks = Append(@, TurnChunk(t))]
    ELSE ApplyUpdates(session, TurnUpdates(t))

\* The list comprehension of cleanup_expired_sessions.
ExpiredIds == { sid \in DOMAIN _sessions : _is_expired(_sessions[sid]) }

\* Turn methods that enter their body without waiting for the lock.
Available_turns_unlocked(t) == t \in TurnTasks \/ _lock = None

\* A sweep that enters its body without waiting for the lock.
Available_sweep_unlocked(t) == t = SweepTask \/ _lock = None

\* async with self._lock: the body is entered only when the lock is free.
Available(t) == _lock = None

\* What a step of a coroutine in the store leaves alone.
outsideLocking == << workflowVars, directoryVars, match_call, invokeVars,
                    tokenVars >>

\* A coroutine calls a method of the store.
Call(t, op, session_id) ==
    /\ tasks[t].pc = "idle"
    /\ tasks' = [tasks EXCEPT ![t] =
                    [NoTask EXCEPT !.op = op, !.session_id = session_id,
                                   !.pc = "acquire"]]
    /\ UNCHANGED << _lock, storeVars >>
    /\ UNCHANGED outsideLocking

Acquire(t) ==
    /\ tasks[t].pc = "acquire"
    /\ Available(t)
    /\ _lock' = Some(t)
    /\ tasks' = [tasks EXCEPT ![t].pc = "locked"]
    /\ UNCHANGED storeVars
    /\ UNCHANGED outsideLocking

\* session = self._sessions.get(session_id); if session is None: return
Lookup(t) ==
    /\ tasks[t].pc = "locked"
    /\ tasks[t].op \in TurnOps
    /\ IF Stored(tasks[t].session_id)
       THEN /\ tasks' = [tasks EXCEPT ![t].pc = "mutate"]
            /\ UNCHANGED _lock
       ELSE /\ tasks' = [tasks EXCEPT ![t].pc = "done", ![t].ok = FALSE]
            /\ _lock' = None
    /\ UNCHANGED storeVars
    /\ UNCHANGED outsideLocking

\* session.transcript_chunks.append(chunk) / setattr(session, key, value) on
\* the object that was looked up, then the method returns and the lock is
\* released.  The object is the one the dictionary holds, unless its key was
\* deleted since the lookup.
MutateSession(t) ==
    /\ tasks[t].pc = "mutate"
    /\ LET sid == tasks[t].session_id
       IN  IF Stored(sid)
           THEN /\ _sessions' = Put(_sessions, sid,
                                    ApplyTurn(t, tasks[t].op, _sessions[sid]))
                /\ last_activity' = Put(last_activity, sid, now)
           ELSE UNCHANGED << _sessions, last_activity >>
    /\ tasks' = [tasks EXCEPT ![t].pc = "done", ![t].ok = TRUE]
    /\ _lock' = None
    /\ UNCHANGED << now, issued, store_call >>
    /\ UNCHANGED outsideLocking

\* expired_ids = [sid for sid, session in self._sessions.items() if ...]
Scan(t) ==
    /\ tasks[t].pc = "locked"
    /\ tasks[t].op = "cleanup_expired_sessions"
    /\ tasks' = [tasks EXCEPT ![t].pc = "delete",
                              ![t].expired_ids = ExpiredIds,
                              ![t].scanned = _sessions]
    /\ UNCHANGED << _lock, storeVars >>
    /\ UNCHANGED outsideLocking

\* for sid in expired_ids: del self._sessions[sid]; return len(expired_ids)
DeleteExpired(t) ==
    /\ tasks[t].pc = "delete"
    /\ _sessions' = Remove(_sessions, tasks[t].expired_ids)
    /\ last_activity' = Remove(last_activity, tasks[t].expired_ids)
    /\ tasks' = [tasks EXCEPT ![t].pc = "done",
                              ![t].count = Cardinality(tasks[t].expired_ids)]
    /\ _lock' = None
    /\ UNCHANGED << now, issued, store_call >>
    /\ UNCHANGED outsideLocking

ConcurrentNext ==
    \/ \E t \in TurnTasks, op \in TurnOps, session_id \in SessionIds :
           Call(t, op, session_id)
    \/ Call(SweepTask, "cleanup_expired_sessions", "")
    \/ \E t \in TaskIds : Acquire(t)
    \/ \E t \in TaskIds : Lookup(t)
    \/ \E t \in TaskIds : MutateSession(t)
    \/ \E t \in TaskIds : Scan(t)
    \/ \E t \in TaskIds : DeleteExpired(t)
    \/ Tick

\* Two sessions were created at hour 0; no coroutine has called the store yet.
ConcurrentInit ==
    /\ DirectoryInit(<<>>)
    /\ WorkflowInit
    /\ match_call = None
    /\ _sessions = [sid \in SessionIds |-> IntakeSessionState(sid, "en", 0)]
    /\ now = 0
    /\ issued = SessionIds
    /\ store_call = None
    /\ last_activity = [sid \in SessionIds |-> 0]
    /\ InvokeInit
    /\ LockInit
    /\ TokenInit({Settings}, "serving", {"a"})

ConcurrentSpec == ConcurrentInit /\ [][ConcurrentNext]_vars

(***************************************************************************)
(* main.py: import, POST /session and the bearer-token cache.  The module  *)
(* builds its model client at import from the environment; the handler of  *)
(* POST /session reads the environment again and calls get_bearer_token,   *)
(* which keeps one token in two globals guarded by token_lock.  A caller   *)
(* is a thread; each `with token_lock` block entered on a free lock is one *)
(* step, except the block that writes the two globals, which is two.       *)
(* Tokens are numbered in the order the provider issues them.              *)
(***************************************************************************)
TickSeconds == 150
TokenLife == 600
MaxClock == 600
MaxTokens == 3

\* if cached_token and current_time < (token_expiry - 300)
RefreshMargin == 300

\* What a step of main.py's import, handler or token cache leaves alone.
outsideToken == << workflowVars, directoryVars, match_call, storeVars,
                   invokeVars, lockVars >>

\* model = _build_azure_model(): RuntimeError at import if one of the two
\* settings it reads through _get_required_env is unset or empty, and the
\* application object is never created.
ImportMain ==
    /\ service = "importing"
    /\ service' = IF {"AZURE_OPENAI_ENDPOINT", "AZURE_OPENAI_API_KEY"} \subseteq environ
                  THEN "serving" ELSE "failed"
    /\ UNCHANGED << environ, cached_token, token_expiry, token_lock, time,
                    issued_tokens, callers >>
    /\ UNCHANGED outsideToken

\* A cache test that lets a token be used until the margin itself.
Fresh_at_margin(current_time) ==
    cached_token # None /\ current_time <= token_expiry - RefreshMargin

\* cached_token and current_time < (token_expiry - 300)
Fresh(current_time) ==
    cached_token # None /\ current_time < token_expiry - RefreshMargin

\* A lock that lets every thread in.
TokenLockFree_unlocked(t) == TRUE

\* with token_lock: the thread gets the lock when no thread holds it.
TokenLockFree(t) == token_lock = None

\* get_bearer_token is entered: current_time = time.time().
Entered == [NoCall EXCEPT !.pc = "check", !.current_time = time]

\* A thread calls get_bearer_token.
CallToken(t) ==
    /\ callers[t].pc = "idle"
    /\ callers' = [callers EXCEPT ![t] = Entered]
    /\ UNCHANGED << environ, service, cached_token, token_expiry, token_lock,
                    time, issued_tokens >>
    /\ UNCHANGED outsideToken

\* POST /session up to its call of get_bearer_token: os.environ[...] raises
\* KeyError for an unset deployment name, and the handler raises ValueError
\* without a resource or endpoint; either is answered with status 500.
create_realtime_session(t) ==
    /\ service = "serving"
    /\ callers[t].pc = "idle"
    /\ callers' = [callers EXCEPT ![t] =
          IF "AZURE_OPENAI_DEPLOYMENT_NAME" \notin environ
          THEN [NoCall EXCEPT !.pc = "done", !.outcome = "raised",
                              !.cause = "KeyError"]
          ELSE IF "AZURE_OPENAI_ENDPOINT" \notin environ
          THEN [NoCall EXCEPT !.pc = "done", !.outcome = "raised",
                              !.cause = "ValueError"]
          ELSE Entered]
    /\ UNCHANGED << environ, service, cached_token, token_expiry, token_lock,
                    time, issued_tokens >>
    /\ UNCHANGED outsideToken

\* The first `with token_lock` block: return the cached token if it is fresh.
CheckCache(t) ==
    /\ callers[t].pc = "check"
    /\ TokenLockFree(t)
    /\ LET call == [callers[t] EXCEPT !.seen_token = cached_token,
                                      !.seen_expiry = token_expiry]
       IN  callers' = [callers EXCEPT ![t] =
              IF Fresh(call.current_time)
              THEN [call EXCEPT !.pc = "done", !.outcome = "returned",
                                !.returned = cached_token]
              ELSE [call EXCEPT !.pc = "fetch"]]
    /\ UNCHANGED << environ, service, cached_token, token_expiry, token_lock,
                    time, issued_tokens >>
    /\ UNCHANGED outsideToken

\* DefaultAzureCredential().get_token(resource_scope) returns a new token.
AcquireToken(t) ==
    /\ callers[t].pc = "fetch"
    /\ Len(issued_tokens) < MaxTokens
    /\ issued_tokens' = Append(issued_tokens, time + TokenLife)
    /\ callers' = [callers EXCEPT ![t] =
          [@ EXCEPT !.pc = "store", !.contacted = TRUE,
                    !.token = Some(Len(issued_tokens) + 1)]]
    /\ UNCHANGED << environ, service, cached_token, token_expiry, token_lock, time >>
    /\ UNCHANGED outsideToken

\* The provider raises: the exception is logged and raised again.
AcquireFails(t) ==
    /\ callers[t].pc = "fetch"
    /\ callers' = [callers EXCEPT ![t] =
          [@ EXCEPT !.pc = "done", !.contacted = TRUE, !.outcome = "raised",
                    !.cause = "CredentialError"]]
    /\ UNCHANGED << environ, service, cached_token, token_expiry, token_lock,
                    time, issued_tokens >>
    /\ UNCHANGED outsideToken

\* The second `with token_lock` block, first statement:
\* cached_token = token.token
StoreToken(t) ==
    /\ callers[t].pc = "store"
    /\ TokenLockFree(t)
    /\ token_lock' = Some(t)
    /\ cached_token' = callers[t].token
    /\ callers' = [callers EXCEPT ![t] = [@ EXCEPT !.pc = "store_expiry"]]
    /\ UNCHANGED << environ, service, token_expiry, time, issued_tokens >>
    /\ UNCHANGED outsideToken

\* second statement, and the lock is released: token_expiry = token.expires_on
StoreExpiry(t) ==
    /\ callers[t].pc = "store_expiry"
    /\ token_expiry' = issued_tokens[callers[t].token[1]]
    /\ token_lock' = None
    /\ callers' = [callers EXCEPT ![t] = [@ EXCEPT !.pc = "return"]]
    /\ UNCHANGED << environ, service, cached_token, time, issued_tokens >>
    /\ UNCHANGED outsideToken

\* return cached_token: the global is read after the lock was released.
ReturnCached(t) ==
    /\ callers[t].pc = "return"
    /\ callers' = [callers EXCEPT ![t] =
          [@ EXCEPT !.pc = "done", !.outcome = "returned",
                    !.returned = cached_token]]
    /\ UNCHANGED << environ, service, cached_token, token_expiry, token_lock,
                    time, issued_tokens >>
    /\ UNCHANGED outsideToken

\* The caller has its result and is free for the next call.
Finish(t) ==
    /\ callers[t].pc = "done"
    /\ callers' = [callers EXCEPT ![t] = NoCall]
    /\ UNCHANGED << environ, service, cached_token, token_expiry, token_lock,
                    time, issued_tokens >>
    /\ UNCHANGED outsideToken

\* time.time() advances.
TokenTick ==
    /\ time + TickSeconds <= MaxClock
    /\ time' = time + TickSeconds
    /\ UNCHANGED << environ, service, cached_token, token_expiry, token_lock,
                    issued_tokens, callers >>
    /\ UNCHANGED outsideToken

\* The service as it runs: the module is imported, and POST /session is
\* handled on the event loop, where get_bearer_token, a function without
\* await, runs from entry to return before the next handler calls it.
MainNext ==
    \/ ImportMain
    \/ \E t \in DOMAIN callers : create_realtime_session(t)
    \/ \E t \in DOMAIN callers : CheckCache(t)
    \/ \E t \in DOMAIN callers : AcquireToken(t)
    \/ \E t \in DOMAIN callers : AcquireFails(t)
    \/ \E t \in DOMAIN callers : StoreToken(t)
    \/ \E t \in DOMAIN callers : StoreExpiry(t)
    \/ \E t \in DOMAIN callers : ReturnCached(t)
    \/ \E t \in DOMAIN callers : Finish(t)
    \/ TokenTick

MainInit ==
    /\ DirectoryInit(<<>>)
    /\ WorkflowInit
    /\ match_call = None
    /\ StoreInit
    /\ InvokeInit
    /\ LockInit
    /\ TokenInit(SUBSET Settings, "importing", {"a"})

MainSpec == MainInit /\ [][MainNext]_vars

\* get_bearer_token called from two threads at once.
ThreadsNext ==
    \/ \E t \in DOMAIN callers : CallToken(t)
    \/ \E t \in DOMAIN callers : CheckCache(t)
    \/ \E t \in DOMAIN callers : AcquireToken(t)
    \/ \E t \in DOMAIN callers : AcquireFails(t)
    \/ \E t \in DOMAIN callers : StoreToken(t)
    \/ \E t \in DOMAIN callers : StoreExpiry(t)
    \/ \E t \in DOMAIN callers : ReturnCached(t)
    \/ \E t \in DOMAIN callers : Finish(t)
    \/ TokenTick

ThreadsInit ==
    /\ DirectoryInit(<<>>)
    /\ WorkflowInit
    /\ match_call = None
    /\ StoreInit
    /\ InvokeInit
    /\ LockInit
    /\ TokenInit({Settings}, "serving", {"a", "b"})

ThreadsSpec == ThreadsInit /\ [][ThreadsNext]_vars

(***************************************************************************)
(* Vocabulary of the properties.                                           *)
(***************************************************************************)
\* This step is a triage evaluation whose response passed validation; the
\* response is triage_result'[1].
TriageEvaluated == pc = "triage" /\ triage_result' # None

\* The response asks for clarification: not ready, with a question.
AsksClarification(r) == ~r.handoff_ready /\ r.clarifying_question # None

StageOrder == << "triage", "clinical_guidance", "referral_builder" >>

(***************************************************************************)
(* C1.  The clarification-attempt counter is always one of 0, 1, 2; a step *)
(* after which the session is still not handoff-ready (it stays in the     *)
(* triage sub-loop) never lowers it; and it is 0 whenever handoff-ready is *)
(* true.                                                                   *)
(***************************************************************************)
C1_AttemptCounter ==
    [][ /\ clarification_attempts' \in 0 .. ClarificationCap
        /\ (~state'.handoff_ready => clarification_attempts' >= clarification_attempts)
        /\ (state'.handoff_ready => clarification_attempts' = 0) ]_vars

\* Witness: the counter had reached 2 when the pass began, and this pass's triage
\* evaluation made the session handoff-ready with the counter back at 0.
C1_Witness ==
    /\ pc = "clinical_guidance"
    /\ saved.clarification_attempts = ClarificationCap
    /\ state.handoff_ready
    /\ clarification_attempts = 0

C3_ClarificationTurn ==
    [][ (/\ TriageEvaluated
         /\ AsksClarification(triage_result'[1])
         /\ clarification_attempts < ClarificationCap)
        => /\ clarification_attempts' = clarification_attempts + 1
           /\ state'.current_agent = "triage"
           /\ ~state'.handoff_ready
           /\ clarifying_question' = triage_result'[1].clarifying_question
           /\ pc' = "idle"
           /\ outcome' = "ok"
           /\ ran' = << "triage" >>
           /\ calls' = << "triage" >> ]_vars

\* Witness: a pass that ended after triage with a question pending, counter at 1.
C3_Witness ==
    /\ pc = "idle"
    /\ outcome = "ok"
    /\ ran = << "triage" >>
    /\ triage_result # None
    /\ AsksClarification(triage_result[1])
    /\ clarification_attempts = 1
    /\ clarifying_question # None

(***************************************************************************)
(* C4.  When the triage stage leaves handoff-ready true, the graph goes on *)
(* to clinical_guidance, and the step that follows is clinical_guidance    *)
(* running in the same pass: no new turn comes in between.                 *)
(***************************************************************************)
C4_HandoffAdvances ==
    [][ /\ (TriageEvaluated /\ state'.handoff_ready)
             => (pc' = "clinical_guidance" /\ turns' = turns)
        /\ pc = "clinical_guidance"
             => /\ ran' = Append(ran, "clinical_guidance")
                /\ calls' = Append(calls, "clinical_guidance")
                /\ turns' = turns ]_vars

\* Witness: first turn of a new session, urgency 5 with a red flag and ready;
\* clinical_guidance has run in that same pass.
C4_Witness ==
    /\ turns = 1
    /\ triage_result # None
    /\ triage_result[1].urgency_score = 5
    /\ triage_result[1].red_flags # <<>>
    /\ triage_result[1].handoff_ready
    /\ Len(ran) >= 2
    /\ ran[2] = "clinical_guidance"

(***************************************************************************)
(* C5 as stated.  After triage the graph advances to clinical_guidance     *)
(* exactly when handoff-ready is true, or a red flag is present, or the    *)
(* urgency score is at least 4.                                            *)
(***************************************************************************)
C5_Original ==
    [][ TriageEvaluated
        => (pc' = "clinical_guidance"
              <=> \/ state'.handoff_ready
                  \/ state'.red_flags # <<>>
                  \/ Get(state'.urgency_score, 0) >= 4) ]_vars

(***************************************************************************)
(* C5 as amended.  After triage the graph advances to clinical_guidance    *)
(* exactly when handoff-ready is true; when it is false the pass ends      *)
(* without clinical_guidance, red flags and urgency notwithstanding.       *)
(***************************************************************************)
C5_RouteOnHandoffOnly ==
    [][ TriageEvaluated
        => /\ state'.handoff_ready => pc' = "clinical_guidance"
           /\ ~state'.handoff_ready
                => (pc' = "idle" /\ outcome' = "ok" /\ ran' = << "triage" >>) ]_vars

\* Witness: a pass that ended after triage although the merged state holds a red
\* flag and urgency 5.
C5_Witness ==
    /\ pc = "idle"
    /\ outcome = "ok"
    /\ ran = << "triage" >>
    /\ ~state.handoff_ready
    /\ state.red_flags # <<>>
    /\ state.urgency_score = Some(5)

(***************************************************************************)
(* C6.  The urgency score held by the session is unset or in 1..5, every   *)
(* triage response that was merged and every referral package that was     *)
(* stored carries a score in 1..5, and every urgency handed to the         *)
(* matching rule by the referral stage is in 1..5.  (A response outside    *)
(* the range fails validation and the pass is abandoned with the session   *)
(* as it was.)                                                             *)
(***************************************************************************)
InRange(u) == u >= UrgencyMin /\ u <= UrgencyMax

C6_UrgencyInRange ==
    /\ state.urgency_score # None => InRange(state.urgency_score[1])
    /\ saved.state.urgency_score # None => InRange(saved.state.urgency_score[1])
    /\ triage_result # None => InRange(triage_result[1].urgency_score)
    /\ state.referral_package # None => InRange(state.referral_package[1].urgency_score)
    /\ \A i \in 1 .. Len(matched) : InRange(matched[i][1])
    /\ Failed(outcome) => (pc = "idle" /\ state = saved.state)

\* Witness: a session that holds urgency 5 from an earlier pass, in which the
\* referral stage handed that urgency to the matching rule, has just had a triage
\* response rejected by validation and keeps the state it had.
C6_Witness ==
    /\ outcome = "invalid"
    /\ calls = << "triage" >>
    /\ state.urgency_score = Some(UrgencyMax)
    /\ state.selected_physician # None
    /\ state = saved.state

(***************************************************************************)
(* C7.  Within one pass the stage tag only moves forward in the order      *)
(* triage < clinical_guidance < referral_builder < terminal: each node     *)
(* that completes tags the state with its own name, no earlier-ranked node *)
(* having run after a later one, and the graph position never moves back.  *)
(***************************************************************************)
Rank(tag) ==
    CASE tag = "triage"            -> 1
      [] tag = "clinical_guidance" -> 2
      [] tag = "referral_builder"  -> 3
      [] tag = "idle"              -> 4
      [] OTHER                     -> 0

C7_StageMonotonic ==
    [][ pc # "idle"
        => /\ Rank(pc') > Rank(pc)
           /\ ~Failed(outcome')
                => /\ state'.current_agent = pc
                   /\ \A i \in 1 .. Len(ran) :
                         Rank(ran[i]) < Rank(state'.current_agent) ]_vars

\* Witness: a pass that went through all three stages.
C7_Witness ==
    /\ pc = "idle"
    /\ outcome = "ok"
    /\ ran = StageOrder
    /\ state.current_agent = "referral_builder"

(***************************************************************************)
(* C8.  After clinical_guidance has merged its result, referral_builder    *)
(* is the next node exactly when referral_required is true, and otherwise  *)
(* the pass ends; referral_builder runs only in a state whose              *)
(* referral_required is true, and calls the engine only then.              *)
(***************************************************************************)
C8_ReferralIffRequired ==
    [][ /\ (pc = "clinical_guidance" /\ ~Failed(outcome'))
             => /\ state'.referral_required => pc' = "referral_builder"
                /\ ~state'.referral_required => (pc' = "idle" /\ outcome' = "ok")
        /\ pc = "referral_builder"
             => /\ state.referral_required
                /\ calls' = Append(calls, "referral_builder")
        /\ (pc = "referral_builder" /\ ~state.referral_required)
             => calls' = calls ]_vars

\* Witness: clinical_guidance answered referral_required = false and the pass
\* ended there, without referral_builder.
C8_Witness ==
    /\ pc = "idle"
    /\ outcome = "ok"
    /\ ran = << "triage", "clinical_guidance" >>
    /\ ~state.referral_required
    /\ state.current_agent = "clinical_guidance"

(***************************************************************************)
(* C9.  The referral package and the matched physician are unset when the  *)
(* session starts, change only in a referral_builder step that completes,  *)
(* and a matched physician is never set without a referral package.        *)
(***************************************************************************)
C9_ReferralFieldsOnlyByBuilder ==
    /\ (state.referral_package = None /\ state.selected_physician = None)
    /\ [][ (\/ state'.referral_package # state.referral_package
            \/ state'.selected_physician # state.selected_physician)
           => (pc = "referral_builder" /\ outcome' = "ok") ]_vars
    /\ [](state.selected_physician # None => state.referral_package # None)
    /\ []((pc = "idle" /\ outcome = "ok" /\ turns = 1 /\ ~state.referral_required)
            => (state.referral_package = None /\ state.selected_physician = None))

\* Witness: the referral stage has run and matched a physician.
C9_Witness ==
    /\ pc = "idle"
    /\ outcome = "ok"
    /\ ran = StageOrder
    /\ state.referral_package # None
    /\ state.selected_physician # None

(***************************************************************************)
(* C10.  Every pass terminates: the stages that ran in a pass, and the     *)
(* engine calls made in it, form a prefix of triage, clinical_guidance,   *)
(* referral_builder (each at most once, in that order); a pass in which a  *)
(* call failed is over, with no second call to that stage; nothing runs    *)
(* after referral_builder; and a pass that is not over can take its next   *)
(* step.                                                                   *)
(***************************************************************************)
IsPrefix(a, b) == Len(a) <= Len(b) /\ \A i \in 1 .. Len(a) : a[i] = b[i]

C10_PassTerminates ==
    /\ IsPrefix(ran, StageOrder)
    /\ calls = ran
    /\ Failed(outcome) => pc = "idle"
    /\ (ran # <<>> /\ ran[Len(ran)] = "referral_builder") => pc = "idle"
    /\ pc # "idle" => (pc = StageOrder[Len(ran) + 1] /\ outcome = "running")
    /\ pc # "idle"
         => ENABLED (TriageNode \/ ClinicalGuidanceNode \/ ReferralBuilderNode)

\* Witness: a pass abandoned at clinical_guidance after triage had succeeded.
C10_Witness ==
    /\ pc = "idle"
    /\ outcome = "error"
    /\ calls = << "triage", "clinical_guidance" >>

(***************************************************************************)
(* C11.  As stated: a turn that arrives for a session which already        *)
(* completed the triage stage in an earlier pass does not invoke the       *)
(* triage stage again.                                                     *)
(***************************************************************************)
C11_Original ==
    [][ (pc = "triage" /\ state.current_agent # "") => calls' = calls ]_vars

(***************************************************************************)
(* C11.  Every turn starts a new pass at the entry point of the graph, the *)
(* triage stage, whatever the session completed before: the pass leaves    *)
(* "idle" only towards triage, and the first engine invocation of every    *)
(* pass is the triage stage.                                               *)
(***************************************************************************)
C11_EveryTurnReentersTriage ==
    [][ /\ (pc = "idle" /\ pc' # "idle") => pc' = "triage"
        /\ (pc = "triage" /\ pc' # "triage") => calls' = << "triage" >> ]_vars

\* The second turn of a session whose first pass ran all three stages has
\* evaluated triage again.
C11_Witness ==
    /\ turns = 2
    /\ saved.state.current_agent = "referral_builder"
    /\ saved.state.referral_package # None
    /\ calls = << "triage" >>
    /\ triage_result # None

(***************************************************************************)
(* Vocabulary of the matching properties.                                  *)
(***************************************************************************)
\* The latest matching call, its arguments and what it gave back.
MatchCalled == match_call # None
MatchRet == match_call[1].ret

\* The directory the called function read, as provider entries.
CalledDirectory ==
    IF match_call[1].impl = "agents" THEN PHYSICIAN_DIRECTORY
    ELSE _load_physician_directory(PHYSICIANS)

(***************************************************************************)
(* C12.  As stated: matching is total and pure; a call of either matching  *)
(* function returns a provider or none, it never raises, and the directory *)
(* is afterwards what was loaded.                                          *)
(***************************************************************************)
C12_Original ==
    MatchCalled =>
        /\ ~MatchRet.raised
        /\ PHYSICIANS = _load_physicians(physicians_json)

(***************************************************************************)
(* The matching rule restated over positions of the directory.  The        *)
(* directory entries are provider entries: records with a specialty and an *)
(* urgency range.                                                          *)
(***************************************************************************)
\* Every record the called function read is a provider entry.
ProviderEntries ==
    \/ match_call[1].impl = "agents"
    \/ \A i \in 1 .. Len(PHYSICIANS) :
          PhysicianInfoValid(PHYSICIANS[i]) /\ AsText(PHYSICIANS[i]) = {}

\* Positions whose range contains the urgency of the call, ends included.
EligibleAt ==
    { i \in 1 .. Len(CalledDirectory) :
          /\ CalledDirectory[i].urgency_min <= match_call[1].urgency
          /\ match_call[1].urgency <= CalledDirectory[i].urgency_max }

\* The preferred specialty of the setting of the call; "" when it has none.
PreferredOfCall == preferred_specialty_map(Lower(match_call[1].setting))

\* Eligible positions whose specialty is the preferred one, whatever the case.
PreferredAt ==
    { i \in EligibleAt :
          Lower(CalledDirectory[i].specialty) = Lower(PreferredOfCall) }

First(S) == CHOOSE i \in S : \A j \in S : i <= j

(***************************************************************************)
(* C13.  When the setting maps to a preferred specialty and an eligible    *)
(* entry has that specialty (case-insensitively), matching returns the     *)
(* first such entry in directory order, even when an eligible entry of     *)
(* another specialty stands earlier in the directory.                      *)
(***************************************************************************)
C13_PreferredFirst ==
    (MatchCalled /\ ProviderEntries) =>
        ((PreferredOfCall # "" /\ PreferredAt # {}) =>
            MatchRet = Returned(Some(CalledDirectory[First(PreferredAt)])))

\* Urgency 3 and "Urgent Care" on a directory whose first eligible entry is a
\* cardiologist and whose first urgent-care entry is written "urgent care".
C13_Witness ==
    /\ MatchCalled
    /\ ProviderEntries
    /\ match_call[1].setting = "Urgent Care"
    /\ match_call[1].urgency = 3
    /\ PreferredAt # {}
    /\ First(EligibleAt) < First(PreferredAt)
    /\ CalledDirectory[First(PreferredAt)].specialty # PreferredOfCall
    /\ MatchRet = Returned(Some(CalledDirectory[First(PreferredAt)]))

(***************************************************************************)
(* C14.  When no eligible entry has the preferred specialty, or the        *)
(* setting has no preferred specialty (unknown or empty setting), matching *)
(* returns the first eligible entry in directory order.                    *)
(***************************************************************************)
C14_FallbackFirstEligible ==
    (MatchCalled /\ ProviderEntries) =>
        (((PreferredOfCall = "" \/ PreferredAt = {}) /\ EligibleAt # {}) =>
            MatchRet = Returned(Some(CalledDirectory[First(EligibleAt)])))

\* A setting with a preferred specialty that no eligible entry has, on a
\* directory with several eligible entries.
C14_Witness ==
    /\ MatchCalled
    /\ ProviderEntries
    /\ PreferredOfCall # ""
    /\ PreferredAt = {}
    /\ Cardinality(EligibleAt) >= 2
    /\ MatchRet = Returned(Some(CalledDirectory[First(EligibleAt)]))

(***************************************************************************)
(* C15.  A provider returned by matching has urgency_min <= urgency <=     *)
(* urgency_max, and matching returns none exactly when no directory        *)
(* entry's range contains the urgency.                                     *)
(***************************************************************************)
C15_InRangeOrNone ==
    MatchCalled =>
        /\ (~MatchRet.raised /\ MatchRet.value # None) =>
               /\ MatchRet.value[1].urgency_min <= match_call[1].urgency
               /\ match_call[1].urgency <= MatchRet.value[1].urgency_max
        /\ ProviderEntries =>
               (MatchRet = Returned(None) <=> EligibleAt = {})

\* An entry is returned for an urgency that equals its upper end.
C15_Witness ==
    /\ MatchCalled
    /\ ProviderEntries
    /\ MatchRet.value # None
    /\ MatchRet.value[1].urgency_max = match_call[1].urgency
    /\ Cardinality(EligibleAt) = 1

(***************************************************************************)
(* Vocabulary of the session-store properties.                             *)
(***************************************************************************)
\* This step is a call of the method `op`; its arguments and its return
\* values are in store_call'.
Ran(op) == now' = now /\ store_call' # None /\ store_call'[1].op = op

\* Hours since the entry was created, and since its latest activity (its
\* creation, an update, an appended chunk, a completion or error mark).
Age(sid) == now - _sessions[sid].start_time
Idle(sid) == now - last_activity[sid]

(***************************************************************************)
(* C16.  get returns the stored state of an id that is stored and not      *)
(* expired and leaves the store as it is; for an expired entry it returns  *)
(* not-found and the entry is gone after that same call; an id that was    *)
(* removed never comes back, so every later get of it returns not-found    *)
(* as well.                                                                *)
(***************************************************************************)
C16_GetSession ==
    [][ \A sid \in SessionIds :
          /\ (Ran("get_session") /\ store_call'[1].session_id = sid) =>
                /\ (Stored(sid) /\ Age(sid) <= session_ttl_hours) =>
                       /\ store_call'[1].session = Some(_sessions[sid])
                       /\ _sessions' = _sessions
                /\ (Stored(sid) /\ Age(sid) > session_ttl_hours) =>
                       /\ store_call'[1].session = None
                       /\ sid \notin DOMAIN _sessions'
                /\ ~Stored(sid) => store_call'[1].session = None
          /\ (sid \in issued /\ ~Stored(sid)) => sid \notin DOMAIN _sessions'
      ]_vars

\* A get has returned not-found for an id that was created, is past its TTL
\* and is no longer stored, while the other session is still stored.
C16_Witness ==
    /\ store_call # None
    /\ store_call[1].op = "get_session"
    /\ store_call[1].session = None
    /\ store_call[1].session_id \in issued
    /\ ~Stored(store_call[1].session_id)
    /\ now > session_ttl_hours
    /\ DOMAIN _sessions # {}

(***************************************************************************)
(* C17.  A session without activity for longer than the TTL is absent from *)
(* every get (the call returns not-found and the id is not stored          *)
(* afterwards) and is not counted by the active-session count, whether or  *)
(* not the sweep has removed it yet.                                       *)
(***************************************************************************)
C17_IdleSessionAbsent ==
    [][ /\ \A sid \in SessionIds :
              (/\ Ran("get_session")
               /\ store_call'[1].session_id = sid
               /\ Stored(sid)
               /\ Idle(sid) > session_ttl_hours) =>
                  /\ store_call'[1].session = None
                  /\ sid \notin DOMAIN _sessions'
        /\ Ran("get_active_session_count") =>
              store_call'[1].count <=
                  Cardinality({ sid \in DOMAIN _sessions :
                                  Idle(sid) <= session_ttl_hours })
      ]_vars

\* The count has returned 0 while an active session that has been idle for
\* longer than the TTL is still in the dictionary.
C17_Witness ==
    /\ store_call # None
    /\ store_call[1].op = "get_active_session_count"
    /\ store_call[1].count = 0
    /\ \E sid \in DOMAIN _sessions :
          /\ _sessions[sid].status = "active"
          /\ Idle(sid) > session_ttl_hours

(***************************************************************************)
(* C18.  As stated: expiry is measured from the latest activity; neither   *)
(* get nor the sweep removes a session whose latest activity is less than  *)
(* the TTL ago.                                                            *)
(***************************************************************************)
C18_Original ==
    [][ \A sid \in SessionIds :
          (/\ Ran("get_session") \/ Ran("cleanup_expired_sessions")
           /\ Stored(sid)
           /\ Idle(sid) < session_ttl_hours) =>
              sid \in DOMAIN _sessions'
      ]_vars

(***************************************************************************)
(* C19.  As stated: the sweep removes exactly the entries whose idle time  *)
(* exceeds the TTL, leaves the others as they are and returns the number   *)
(* of entries it removed.                                                  *)
(***************************************************************************)
C19_Original ==
    [][ Ran("cleanup_expired_sessions") =>
          LET idle_ids == { sid \in DOMAIN _sessions :
                              Idle(sid) > session_ttl_hours }
          IN  /\ _sessions' = Remove(_sessions, idle_ids)
              /\ store_call'[1].count = Cardinality(idle_ids)
      ]_vars

(***************************************************************************)
(* C20.  delete removes the entry of the id and returns true exactly when  *)
(* the id was stored; for an id that is not stored it returns false, which *)
(* the route answers with 404, and the store is unchanged; every other     *)
(* session is left as it was in both cases.                                *)
(***************************************************************************)
C20_DeleteSession ==
    [][ \A sid \in SessionIds :
          (Ran("delete_session") /\ store_call'[1].session_id = sid) =>
              /\ store_call'[1].ok = Stored(sid)
              /\ store_call'[1].http = Some(IF Stored(sid) THEN 200 ELSE 404)
              /\ _sessions' = Remove(_sessions, {sid})
              /\ ~Stored(sid) => _sessions' = _sessions
      ]_vars

\* A delete of an id that is not stored has been answered with 404 while
\* another session is stored.
C20_Witness ==
    /\ store_call # None
    /\ store_call[1].op = "delete_session"
    /\ store_call[1].ok = FALSE
    /\ store_call[1].http = Some(404)
    /\ store_call[1].session_id \notin issued
    /\ DOMAIN _sessions # {}

(***************************************************************************)
(* C21.  delete of an id whose session is stored but idle for longer than  *)
(* the time to live (expired, not yet swept) reports not-found: it returns *)
(* false and the route answers 404, as for an unknown id and as get does.  *)
(* delete_session never consults _is_expired: it removes the entry and     *)
(* returns true, so this statement is violated.                            *)
(***************************************************************************)
C21_Original ==
    [][ \A sid \in SessionIds :
          ( /\ Ran("delete_session")
            /\ store_call'[1].session_id = sid
            /\ Stored(sid)
            /\ Idle(sid) > session_ttl_hours ) =>
              /\ store_call'[1].ok = FALSE
              /\ store_call'[1].http = Some(404)
      ]_vars

(***************************************************************************)
(* C22.  create never overwrites a stored session: the identifier it       *)
(* allocates is not a key of the store, every session stored before the    *)
(* call is stored unchanged after it, and the number of stored sessions    *)
(* grows by exactly one.                                                   *)
(***************************************************************************)
C22_CreateNeverCollides ==
    [][ Ran("create_session") =>
          LET sid == store_call'[1].session_id
          IN  /\ sid \notin DOMAIN _sessions
              /\ DOMAIN _sessions' = DOMAIN _sessions \cup {sid}
              /\ \A other \in DOMAIN _sessions : _sessions'[other] = _sessions[other]
              /\ Cardinality(DOMAIN _sessions') = Cardinality(DOMAIN _sessions) + 1
      ]_vars

\* create has returned while a session created earlier is stored and has
\* been changed since its creation.
C22_Witness ==
    /\ store_call # None
    /\ store_call[1].op = "create_session"
    /\ \E other \in DOMAIN _sessions :
         /\ other # store_call[1].session_id
         /\ _sessions[other].status # "active"

(***************************************************************************)
(* C23.  The session create returns is stored under its id and has every   *)
(* field at its default: no transcript chunks, an empty final transcript,  *)
(* no extracted symptoms, no error message, status "active", and the       *)
(* creation time as start_time; a get of the id that follows the create at *)
(* the same clock reading returns that session.                            *)
(***************************************************************************)
C23_NewSessionDefaults ==
    [][ /\ Ran("create_session") =>
            LET sid     == store_call'[1].session_id
                session == store_call'[1].session
            IN  /\ session # None
                /\ session[1].session_id = sid
                /\ session[1].transcript_chunks = << >>
                /\ session[1].final_transcript = ""
                /\ session[1].extracted_symptoms = None
                /\ session[1].error_message = None
                /\ session[1].status = "active"
                /\ session[1].start_time = now
                /\ sid \in DOMAIN _sessions'
                /\ _sessions'[sid] = session[1]
        /\ ( /\ store_call # None
             /\ store_call[1].op = "create_session"
             /\ store_call[1].session[1].start_time = now
             /\ Ran("get_session")
             /\ store_call'[1].session_id = store_call[1].session_id ) =>
               store_call'[1].session = store_call[1].session
      ]_vars

\* A get that followed create at the same clock reading has returned the
\* new session, created later than another stored session.
C23_Witness ==
    /\ store_call # None
    /\ store_call[1].op = "get_session"
    /\ store_call[1].session # None
    /\ store_call[1].session[1] =
          IntakeSessionState(store_call[1].session_id, "en", now)
    /\ now > 0
    /\ Cardinality(DOMAIN _sessions) = 2

(***************************************************************************)
(* C24.  Two fetches of the same session id with no call to the store in   *)
(* between return the same: if the first found no session so does the      *)
(* second, and if the first returned a session that has not outlived its   *)
(* time to live at the second, the second returns the identical session,   *)
(* the route answers with the same status code and body, and the second    *)
(* fetch leaves the store as it is.                                        *)
(***************************************************************************)
C24_FetchIdempotent ==
    [][ ( /\ store_call # None
          /\ store_call[1].op = "get_session"
          /\ Ran("get_session")
          /\ store_call'[1].session_id = store_call[1].session_id ) =>
            LET first  == store_call[1]
                second == store_call'[1]
            IN  /\ first.session = None =>
                     /\ second.session = None
                     /\ second.http = first.http
                     /\ _sessions' = _sessions
                /\ (first.session # None /\ ~_is_expired(first.session[1])) =>
                     /\ second.session = first.session
                     /\ second.http = first.http
                     /\ SessionView(second.session[1]) = SessionView(first.session[1])
                     /\ _sessions' = _sessions
      ]_vars

\* A fetch has returned a completed session one tick after the store was
\* set up, answered with 200 and a body of transcript length 5; any fetch
\* of the same id may follow it.
C24_Witness ==
    /\ store_call # None
    /\ store_call[1].op = "get_session"
    /\ store_call[1].session # None
    /\ store_call[1].http = Some(200)
    /\ SessionView(store_call[1].session[1]).transcript_length = 5
    /\ now = TickHours

(***************************************************************************)
(* C28.  A turn for an id the store does not hold creates the session and  *)
(* is applied to it: after add_transcript_chunk or update_session on such  *)
(* an id the id is stored, add_transcript_chunk has returned true with the *)
(* chunk in the transcript, and update_session has returned the session.   *)
(* Both methods return without creating anything, so this statement is     *)
(* violated.                                                               *)
(***************************************************************************)
C28_Original ==
    [][ \A sid \in SessionIds :
          ( /\ Ran("add_transcript_chunk") \/ Ran("update_session")
            /\ store_call'[1].session_id = sid
            /\ ~Stored(sid) ) =>
              /\ sid \in DOMAIN _sessions'
              /\ Ran("add_transcript_chunk") =>
                   /\ store_call'[1].ok = TRUE
                   /\ Len(_sessions'[sid].transcript_chunks) = 1
              /\ Ran("update_session") => store_call'[1].session # None
      ]_vars

C26_NoOverlapPerSession ==
    \A sid \in SessionIds :
        Cardinality({ rid \in InFlight : requests[rid].session = sid }) <= 1

\* An engine call is in flight for a session while a second request of the
\* same session has been posted and waits.
C26_Witness ==
    \E rid \in RequestIds, other \in RequestIds :
        /\ requests[rid].stage = "in_flight"
        /\ requests[other].stage = "queued"
        /\ requests[other].session = requests[rid].session

(***************************************************************************)
(* C30.  A request whose engine call failed (the call raised, the engine   *)
(* gave no structured output, or the output violates the stage's schema:   *)
(* urgency outside 1..5, a care setting outside the five allowed, or       *)
(* response_text missing) is answered with status 500 and no structured    *)
(* output; a response with status 200 carries a structured output that     *)
(* satisfies the schema and is the engine's output.                        *)
(***************************************************************************)
C30_FailureIs500 ==
    \A rid \in RequestIds :
        requests[rid].stage = "done" =>
          LET reply    == requests[rid].reply[1]
              response == requests[rid].response[1]
              raised   == reply = EngineError \/ reply = NoStructuredOutput
              invalid  ==
                  /\ ~raised
                  /\ \/ /\ "urgency_score" \in DOMAIN reply
                        /\ reply.urgency_score \notin UrgencyMin .. UrgencyMax
                     \/ /\ "recommended_setting" \in DOMAIN reply
                        /\ reply.recommended_setting \notin
                              { "Emergency Department", "Urgent Care",
                                "Primary Care", "Self-care", "Specialist" }
                     \/ reply.response_text = None
          IN  /\ (raised \/ invalid) =>
                    /\ response.status_code = 500
                    /\ response.structured_output = None
              /\ response.status_code \in {200, 500}
              /\ response.status_code = 200 =>
                    /\ ~raised /\ ~invalid
                    /\ response.agent_type = requests[rid].agent_type
                    /\ response.structured_output # None
                    /\ Some(response.response_text) = reply.response_text
                    /\ \A f \in DOMAIN reply \ {"response_text"} :
                          response.structured_output[1][f] = reply[f]

\* One request was answered with 500 for an urgency above the range and
\* another with 500 for a call that raised.
C30_Witness ==
    \E rid \in RequestIds, other \in RequestIds :
        /\ requests[rid].stage = "done"
        /\ requests[rid].reply[1] # EngineError
        /\ requests[rid].reply[1] # NoStructuredOutput
        /\ requests[rid].agent_type = "triage"
        /\ requests[rid].reply[1].urgency_score > UrgencyMax
        /\ requests[rid].reply[1].response_text # None
        /\ requests[rid].response[1].status_code = 500
        /\ requests[other].stage = "done"
        /\ requests[other].reply[1] = EngineError
        /\ requests[other].response[1].status_code = 500

\* The turn of coroutine t shows in the stored session.
Reflected(t) ==
    LET session == _sessions[tasks[t].session_id]
    IN  IF tasks[t].op = "add_transcript_chunk"
        THEN \E i \in 1 .. Len(session.transcript_chunks) :
                 session.transcript_chunks[i] = TurnChunk(t)
        ELSE \A f \in DOMAIN TurnUpdates(t) : session[f] = TurnUpdates(t)[f]

\* Coroutine t has returned from a turn that found its session.
Applied(t) == tasks[t].pc = "done" /\ tasks[t].ok

(***************************************************************************)
(* C25.  Two turns submitted concurrently for one session are applied one  *)
(* after the other and none is lost: between the lookup of a turn and its  *)
(* change to the session no other coroutine changes the store, and once    *)
(* both turns have returned the stored session shows both, in every        *)
(* interleaving.                                                           *)
(***************************************************************************)
C25_NoLostUpdate ==
    [][ /\ \A t \in TurnTasks :
             (tasks[t].pc = "mutate" /\ tasks'[t] = tasks[t]) =>
                 _sessions' = _sessions
        /\ \A t \in TurnTasks, u \in TurnTasks :
             ( /\ u # t
               /\ tasks[t].pc = "mutate" /\ tasks'[t].pc = "done"
               /\ Applied(u)
               /\ tasks[u].session_id = tasks[t].session_id ) =>
                 /\ Stored(tasks[t].session_id)
                 /\ Reflected(t)' /\ Reflected(u)'
      ]_vars

\* Both coroutines have appended to the same session, the second having
\* waited for the lock, and the transcript holds both chunks.
C25_Witness ==
    /\ Applied("t1") /\ Applied("t2")
    /\ tasks["t1"].session_id = tasks["t2"].session_id
    /\ tasks["t1"].op = "add_transcript_chunk"
    /\ tasks["t2"].op = "add_transcript_chunk"
    /\ Stored(tasks["t1"].session_id)
    /\ _sessions[tasks["t1"].session_id].transcript_chunks = << "second", "first" >>

(***************************************************************************)
(* C27.  The sweep's expiry check and its removal are one atomic step for  *)
(* every other operation of the store: between the two no other coroutine  *)
(* changes the store, so the sweep removes exactly the sessions it found   *)
(* expired, each as it was when checked, and leaves the others as they are.*)
(***************************************************************************)
C27_SweepAtomic ==
    [][ \A t \in TaskIds :
          tasks[t].pc = "delete" =>
            /\ tasks'[t] = tasks[t] => _sessions' = _sessions
            /\ tasks'[t].pc = "done" =>
                 /\ _sessions = tasks[t].scanned
                 /\ \A sid \in tasks[t].expired_ids :
                        /\ sid \in DOMAIN _sessions
                        /\ now - _sessions[sid].start_time > session_ttl_hours
                 /\ DOMAIN _sessions' = DOMAIN _sessions \ tasks[t].expired_ids
                 /\ \A sid \in DOMAIN _sessions' : _sessions'[sid] = _sessions[sid]
      ]_vars

\* The sweep has removed a session it found expired, and a turn for that
\* session has returned without finding it.
C27_Witness ==
    /\ tasks[SweepTask].pc = "done"
    /\ tasks[SweepTask].count > 0
    /\ \E t \in TurnTasks :
         /\ tasks[t].pc = "done"
         /\ ~tasks[t].ok
         /\ tasks[t].session_id \notin DOMAIN _sessions
         /\ tasks[t].session_id \in DOMAIN tasks[SweepTask].scanned

(***************************************************************************)
(* C32.  As stated: a module that has loaded the directory holds every     *)
(* record of physicians.json as a validated provider entry, in file order, *)
(* and a malformed record never reaches a request: the listing and the     *)
(* matching handler of main.py never raise on a record.  main.py loads the *)
(* records unvalidated and starts, so this statement is violated.          *)
(***************************************************************************)
C32_Original ==
    /\ agents_loaded =>
          /\ Len(PHYSICIAN_DIRECTORY) = Len(physicians_json)
          /\ \A i \in 1 .. Len(physicians_json) :
                PHYSICIAN_DIRECTORY[i] = PhysicianInfo(physicians_json[i])
    /\ \A i \in 1 .. Len(PHYSICIANS) : PhysicianInfoValid(PHYSICIANS[i])
    /\ ~get_physicians.raised
    /\ (MatchCalled /\ match_call[1].impl = "main") => ~MatchRet.raised

(***************************************************************************)
(* C34.  As stated: on the directory loaded from one physicians.json the   *)
(* two implementations of the matching rule agree for every urgency and    *)
(* setting: what agents._select_physician returns is what the handler      *)
(* /physicians/match of main.py returns, a provider or none.  The handler  *)
(* raises on records the loader of agents.py accepts and converts, so this *)
(* statement is violated.                                                  *)
(***************************************************************************)
C34_Original ==
    (MatchCalled /\ agents_loaded) =>
        /\ match_call[1].impl = "agents" =>
              match_physician(match_call[1].urgency, match_call[1].setting) = MatchRet
        /\ match_call[1].impl = "main" =>
              MatchRet = Returned(_select_physician(match_call[1].urgency,
                                                    match_call[1].setting))

(***************************************************************************)
(* C33.  As stated: the transcript of a stored session is append-only and  *)
(* order-preserving: over every step of the store that leaves the session  *)
(* stored, the transcript before the step is a prefix of the transcript    *)
(* after it.  update_session sets any attribute the session has, the       *)
(* transcript included, so this statement is violated.                     *)
(***************************************************************************)
C33_Original ==
    [][ \A sid \in DOMAIN _sessions \cap DOMAIN _sessions' :
          IsPrefix(_sessions[sid].transcript_chunks,
                   _sessions'[sid].transcript_chunks)
      ]_vars

(***************************************************************************)
(* C35.  After any sequence of store operations every entry of the store   *)
(* is keyed by the session_id held in the stored session object, also      *)
(* after a call of update_session that names session_id among its updates: *)
(* that call raises and changes nothing.                                   *)
(***************************************************************************)
C35_KeyedBySessionId ==
    \A sid \in DOMAIN _sessions : _sessions[sid].session_id = sid

\* update_session was called on a stored session with session_id among the
\* updates, after other updates had changed the session.
C35_Witness ==
    /\ store_call # None
    /\ store_call[1].op = "update_session"
    /\ store_call[1].raised
    /\ store_call[1].session_id = "s1"
    /\ Stored("s1")
    /\ _sessions["s1"].status = "timeout"
    /\ Len(_sessions["s1"].transcript_chunks) > 0

\* The four operations that write to a session they look up.
Mutators ==
    {"update_session", "add_transcript_chunk", "mark_completed", "mark_error"}

(***************************************************************************)
(* C36.  update_session, add_transcript_chunk, mark_completed and          *)
(* mark_error called with an id that is not stored return None or False    *)
(* and leave the whole store as it was, so they never create a session;    *)
(* called with a stored id they keep the set of stored ids and change no   *)
(* entry but the one of that id.                                           *)
(***************************************************************************)
C36_MutatorsFrame ==
    [][ \A op \in Mutators : \A sid \in SessionIds :
          (Ran(op) /\ store_call'[1].session_id = sid) =>
              /\ ~Stored(sid) =>
                    /\ _sessions' = _sessions
                    /\ store_call'[1].session = None
                    /\ ~store_call'[1].ok
              /\ Stored(sid) =>
                    /\ DOMAIN _sessions' = DOMAIN _sessions
                    /\ \A k \in DOMAIN _sessions \ {sid} :
                          _sessions'[k] = _sessions[k]
                    /\ op = "update_session" =>
                          store_call'[1].session = Some(_sessions'[sid])
                    /\ op # "update_session" => store_call'[1].ok
      ]_vars

\* mark_error on an id that is not stored has returned False, while the other
\* session, written by add_transcript_chunk and mark_completed, is stored.
C36_Witness ==
    /\ store_call # None
    /\ store_call[1].op = "mark_error"
    /\ store_call[1].session_id = "s2"
    /\ ~store_call[1].ok
    /\ ~Stored("s2")
    /\ Stored("s1")
    /\ _sessions["s1"].status = "completed"
    /\ Len(_sessions["s1"].transcript_chunks) > 0

(***************************************************************************)
(* C37.  get_active_session_count leaves the store as it was, expired      *)
(* entries included, and returns the number of stored sessions less those  *)
(* whose status is not active and less the active ones older than the      *)
(* TTL; a completed or errored session is never among the counted.         *)
(***************************************************************************)
C37_CountIsPure ==
    [][ Ran("get_active_session_count") =>
          LET inactive == { sid \in DOMAIN _sessions :
                              _sessions[sid].status \in
                                  {"completed", "error", "timeout"} }
              lapsed   == { sid \in DOMAIN _sessions \ inactive :
                              Age(sid) > session_ttl_hours }
          IN  /\ _sessions' = _sessions
              /\ store_call'[1].count =
                     Cardinality(DOMAIN _sessions) - Cardinality(inactive)
                                                   - Cardinality(lapsed)
      ]_vars

\* The count has returned 0 and left in the store a completed session
\* younger than the TTL and an active one older than the TTL.
C37_Witness ==
    /\ store_call # None
    /\ store_call[1].op = "get_active_session_count"
    /\ store_call[1].count = 0
    /\ \E sid \in DOMAIN _sessions :
          /\ _sessions[sid].status = "completed"
          /\ Age(sid) <= session_ttl_hours
    /\ \E sid \in DOMAIN _sessions :
          /\ _sessions[sid].status = "active"
          /\ Age(sid) > session_ttl_hours

(***************************************************************************)
(* C31.  As stated: a missing setting that a request handler needs is      *)
(* fatal at startup, so while the service accepts requests no request      *)
(* fails because a setting is missing.                                     *)
(***************************************************************************)
C31_Original ==
    \A t \in DOMAIN callers :
        ~(/\ service = "serving"
          /\ callers[t].pc = "done"
          /\ callers[t].outcome = "raised"
          /\ callers[t].cause \in {"KeyError", "ValueError"})

\* What the call saw under the lock passes the cache test of the claim.
SawFresh(call) ==
    /\ call.seen_token # None
    /\ call.current_time < call.seen_expiry - RefreshMargin

(***************************************************************************)
(* C38.  A call of get_bearer_token that has returned did so without       *)
(* contacting the credential provider only if a token was cached and the   *)
(* time the call read was more than 300 seconds before the cached expiry,  *)
(* and then it returned that token and left the cache alone; otherwise it  *)
(* contacted the provider, and the token it acquired is a new one, is in   *)
(* the cache with its own expiry, and is what the call returned.  A call   *)
(* in which the provider raised had failed the cache test and left the     *)
(* cache alone.                                                            *)
(***************************************************************************)
C38_CacheCondition ==
    \A t \in DOMAIN callers :
        LET call == callers[t]
        IN  /\ (call.pc = "done" /\ call.outcome = "returned") =>
                  /\ ~call.contacted =>
                        /\ SawFresh(call)
                        /\ call.returned = call.seen_token
                        /\ cached_token = call.seen_token
                        /\ token_expiry = call.seen_expiry
                  /\ ~SawFresh(call) =>
                        /\ call.contacted
                        /\ call.token # None
                        /\ call.token # call.seen_token
                        /\ call.token[1] = Len(issued_tokens)
                        /\ cached_token = call.token
                        /\ token_expiry = issued_tokens[call.token[1]]
                        /\ call.returned = call.token
            /\ (call.pc = "done" /\ call.cause = "CredentialError") =>
                  /\ ~SawFresh(call)
                  /\ cached_token = call.seen_token
                  /\ token_expiry = call.seen_expiry

\* A call has returned a token it acquired because the time it read was
\* exactly 300 seconds before the expiry of the token it found cached.
C38_Witness ==
    \E t \in DOMAIN callers :
        /\ callers[t].pc = "done"
        /\ callers[t].outcome = "returned"
        /\ callers[t].contacted
        /\ callers[t].seen_token # None
        /\ callers[t].current_time = callers[t].seen_expiry - RefreshMargin
        /\ callers[t].returned = callers[t].token

\* The token and the expiry are None and 0, or a token and its expires_on.
Paired(token, expiry) ==
    IF token = None THEN expiry = 0 ELSE expiry = issued_tokens[token[1]]

(***************************************************************************)
(* C39.  Under every interleaving of two threads calling get_bearer_token: *)
(* the cached token and the cached expiry that a call reads under the      *)
(* lock, and those in the globals whenever the lock is free, are None and  *)
(* 0 or one acquired token and its own expiry; and a call that returns     *)
(* returns a token, never None: the one it acquired or the one the cache   *)
(* held when the call read it.                                             *)
(***************************************************************************)
C39_PairConsistent ==
    [][ /\ \A t \in DOMAIN callers :
              Paired(callers'[t].seen_token, callers'[t].seen_expiry)
        /\ token_lock' = None => Paired(cached_token', token_expiry')
        /\ \A t \in DOMAIN callers :
              (callers[t].pc # "done" /\ callers'[t].outcome = "returned") =>
                  /\ callers'[t].returned # None
                  /\ callers'[t].returned[1] \in 1..Len(issued_tokens)
                  /\ \/ callers'[t].returned = callers[t].token
                     \/ callers'[t].returned = cached_token
      ]_vars

\* A call has returned a token another thread acquired and stored between
\* this call's store and its return.
C39_Witness ==
    \E t \in DOMAIN callers :
        /\ callers[t].pc = "done"
        /\ callers[t].outcome = "returned"
        /\ callers[t].contacted
        /\ callers[t].returned # callers[t].token
====
